---- MODULE Spec2Model ----
(***************************************************************************)
(* A model of the reconciliation engine of the Argo CD operator:           *)
(*   - the Service reconcilers of the ArgoCDReconciler                      *)
(*     (src/unnamed/part_000),                                              *)
(*   - the auto-TLS annotation mutators (src/unnamed/part_000 and          *)
(*     src/controllers/argocd/service.go),                                  *)
(*   - the ApplicationSetReconciler (Reconcile / DeleteResources,          *)
(*     src/controllers/argocd/applicationset/applicationset.go),           *)
(*   - the redis config-map reconcilers and the delete helpers             *)
(*     (src/controllers/argocd/redis/configmap.go,                         *)
(*     src/pkg/common/defaults.go).                                        *)
(*                                                                         *)
(* The cluster store is a function from <<namespace, name>> to the live    *)
(* object.  A reconciliation pass is one action: it threads a pass state   *)
(* [store, writes, ran, err] through the reconcilers in the order of the   *)
(* code, and every store call a reconciler issues is appended to writes.   *)
(***************************************************************************)
EXTENDS Integers, Sequences, FiniteSets, TLC

VARIABLES
    store,        \* services in the cluster: <<namespace, name>> -> Service
    cr,           \* the ArgoCD custom resource (its spec fields used here)
    routeAPI,     \* the process-wide result of IsRouteAPIAvailable()
    haReplicas,   \* the value of common.ArgoCDDefaultRedisHAReplicas in force
    events,       \* number of things the environment has done so far
    last,         \* what the last step did: its kind, store calls, result
    mut,          \* the auto-TLS mutators: the call being made and its result
    resourceName, \* package variable of applicationset (applicationset.go:21)
    resourceLabels, \* package variable of applicationset (applicationset.go:22)
    asrStore,     \* applicationset resources: <<kind, namespace, name>> -> labels
    asrLast,      \* last ApplicationSetReconciler call and its outcome
    cmStore,      \* config maps and cluster role bindings:
                  \* <<kind, namespace, name>> -> object
    nsDeleting,   \* the instance's namespace carries a deletion timestamp
    cmLast,       \* last call of the redis config-map reconcilers or of a
                  \* delete helper, and its outcome
    fnCall        \* last call of a function without side effects: its
                  \* arguments and its result

vars == <<store, cr, routeAPI, haReplicas, events, last, mut,
          resourceName, resourceLabels, asrStore, asrLast,
          cmStore, nsDeleting, cmLast, fnCall>>

svcVars == <<store, cr, routeAPI, haReplicas, events, last>>
asrVars == <<resourceName, resourceLabels, asrStore, asrLast>>
cmVars  == <<cmStore, nsDeleting, cmLast>>

----------------------------------------------------------------------------
(* Bounds of the model *)

\* the environment acts at most MaxEvents times in a behaviour: a change of
\* the ArgoCD spec or of the replica count, an edit or a removal of a live
\* service by another actor, a pass in which the store rejects a call
MaxEvents == 3

\* a mutator is called at most MaxCalls times on the same service object
MaxCalls == 2

\* Reconcile and DeleteResources of the ApplicationSetReconcilers are called
\* at most MaxAsrCalls times in a behaviour
MaxAsrCalls == 3

\* the config-map reconcilers, the delete helpers and their environment take
\* at most MaxCmSteps steps in a behaviour
MaxCmSteps == 4

----------------------------------------------------------------------------
(* Constants of the program *)

ArgoCDDefaultRedisHAReplicas == 3

ServiceBetaOpenshiftKeyCertSecret == "service.beta.openshift.io/serving-cert-secret-name"
ServiceAlphaK8sKeyTolerateUnreadyEndpoints == "service.alpha.kubernetes.io/tolerate-unready-endpoints"
ArgoCDRedisServerTLSSecretName == "argocd-operator-redis-tls"
ArgoCDRepoServerTLSSecretName == "argocd-repo-server-tls"
ArgoCDServerTLSSecretName == "argocd-server-tls"
TLSTerminationReencrypt == "reencrypt"

\* the one instance the Service reconcilers are run for
InstanceName == "demo"
InstanceNamespace == "ns1"

----------------------------------------------------------------------------
(* Maps (Go map[string]string) as functions with a finite domain; a nil    *)
(* map and an empty map hold the same key/value pairs and are both the     *)
(* function with the empty domain.                                         *)

EmptyMap == [k \in {} |-> ""]

Range(q) == {q[i] : i \in 1 .. Len(q)}

MapSet(m, k, v) == [x \in (DOMAIN m) \cup {k} |-> IF x = k THEN v ELSE m[x]]

MapDelete(m, k) == [x \in (DOMAIN m) \ {k} |-> m[x]]

----------------------------------------------------------------------------
(* The ArgoCD spec *)

\* WantsAutoTLS of the three component specs
ServerWantsAutoTLS(c) ==
    c.serverRouteTLS # "nil" /\ c.serverRouteTLS = TLSTerminationReencrypt

\* a variant that accepts every provider string that is not empty
RepoWantsAutoTLS_AnyProvider(c) == c.repoAutoTLS # ""

RepoWantsAutoTLS(c) == c.repoAutoTLS = "openshift"

RedisWantsAutoTLS(c) == c.redisAutoTLS = "openshift"

----------------------------------------------------------------------------
(* Service builders *)

\* variant: the namespace of the instance is not copied to the object
newService_DefaultNamespace(c) ==
    [ name        |-> c.name,
      namespace   |-> "default",
      labels      |-> [name |-> c.name, component |-> ""],
      annotations |-> EmptyMap,
      owner       |-> "",
      spec        |-> "" ]

newService(c) ==
    [ name        |-> c.name,
      namespace   |-> c.namespace,
      labels      |-> [name |-> c.name, component |-> ""],
      annotations |-> EmptyMap,
      owner       |-> "",
      spec        |-> "" ]

newServiceWithName(name, component, c) ==
    [ newService(c) EXCEPT !.name = name,
                           !.labels = [name |-> name, component |-> component] ]

\* fmt.Sprintf("%s-%s", cr.Name, suffix)
newServiceWithSuffix(suffix, component, c) ==
    newServiceWithName(c.name \o "-" \o suffix, component, c)

\* util.NameWithSuffix(cr.Name, suffix), used for selectors
NameWithSuffix(name, suffix) == name \o "-" \o suffix

\* controllerutil.SetControllerReference(cr, svc, r.Scheme): owner and child
\* are in the same namespace in every call of the Service reconcilers
SetControllerReference(c, svc) == [svc EXCEPT !.owner = c.name]

Key(svc) == <<svc.namespace, svc.name>>

----------------------------------------------------------------------------
(* The store client.  A pass state s is                                    *)
(*   [store, writes, ran, err, logged]: the store, the store calls issued  *)
(* so far, the reconcilers entered so far, the error being returned, and   *)
(* whether an error was logged and dropped.  c.fail is the set of keys     *)
(* whose mutating call the store rejects in this pass.                     *)

Call(op, svc) == [op |-> op, namespace |-> svc.namespace, name |-> svc.name]

\* util.IsObjectFound(r.Client, cr.Namespace, svc.Name, svc)
IsObjectFound(s, namespace, name) == <<namespace, name>> \in DOMAIN s.store

\* the object IsObjectFound reads into svc when it is found
Live(s, svc) == s.store[Key(svc)]

ClientCreate(s, svc, c) ==
    LET w == Append(s.writes, Call("Create", svc))
    IN  IF Key(svc) \in c.fail \/ Key(svc) \in DOMAIN s.store
        THEN [s EXCEPT !.writes = w, !.err = TRUE]
        ELSE [s EXCEPT !.writes = w,
                       !.store = [k \in (DOMAIN s.store) \cup {Key(svc)} |->
                                     IF k = Key(svc) THEN svc ELSE s.store[k]]]

\* c.raced: the keys another actor removes from the store after the
\* reconciler's existence check and before its call reaches the store; the
\* call then finds no object and returns the store's not-found error
Raced(s, svc, c) == Key(svc) \in c.raced /\ Key(svc) \in DOMAIN s.store

Vanish(s, svc) ==
    [s EXCEPT !.store = [k \in (DOMAIN s.store) \ {Key(svc)} |-> s.store[k]],
              !.raced = s.raced \cup {Key(svc)}]

ClientUpdate(s, svc, c) ==
    LET w == Append(s.writes, Call("Update", svc))
    IN  IF Raced(s, svc, c)
        THEN [Vanish(s, svc) EXCEPT !.writes = w, !.err = TRUE]
        ELSE IF Key(svc) \in c.fail \/ Key(svc) \notin DOMAIN s.store
        THEN [s EXCEPT !.writes = w, !.err = TRUE]
        ELSE [s EXCEPT !.writes = w, !.store = [s.store EXCEPT ![Key(svc)] = svc]]

\* return r.Client.Delete(context.TODO(), svc): whatever the store answers,
\* its not-found error included, is the reconciler's return value
ClientDelete(s, svc, c) ==
    LET w == Append(s.writes, Call("Delete", svc))
    IN  IF Raced(s, svc, c)
        THEN [Vanish(s, svc) EXCEPT !.writes = w, !.err = TRUE]
        ELSE IF Key(svc) \in c.fail \/ Key(svc) \notin DOMAIN s.store
        THEN [s EXCEPT !.writes = w, !.err = TRUE]
        ELSE [s EXCEPT !.writes = w,
                       !.store = [k \in (DOMAIN s.store) \ {Key(svc)} |-> s.store[k]]]

Enter(s, who) == [s EXCEPT !.ran = Append(s.ran, who)]

\* if err := controllerutil.SetControllerReference(cr, svc, r.Scheme); err != nil {
\*     return err }
\* return r.Client.Create(context.TODO(), svc)
\* c.ownerFail: SetControllerReference returns an error in this pass
CreateOwned(s, svc, c) ==
    IF c.ownerFail THEN [s EXCEPT !.err = TRUE]
    ELSE ClientCreate(s, SetControllerReference(c.cr, svc), c)

----------------------------------------------------------------------------
(* The auto-TLS annotation mutator of the Service reconcilers.  The Go      *)
(* function mutates svc in place and returns a bool; here it returns both.  *)

\* a set-once variant: a key that is present is never rewritten
ensureAutoTLSAnnotation_SetOnce(svc, secretName, enabled, route) ==
    LET ok == ServiceBetaOpenshiftKeyCertSecret \in DOMAIN svc.annotations
    IN  IF ~route THEN [svc |-> svc, changed |-> FALSE]
        ELSE IF enabled /\ ~ok
        THEN [svc |-> [svc EXCEPT !.annotations =
                          MapSet(@, ServiceBetaOpenshiftKeyCertSecret, secretName)],
              changed |-> TRUE]
        ELSE IF ~enabled /\ ok
        THEN [svc |-> [svc EXCEPT !.annotations =
                          MapDelete(@, ServiceBetaOpenshiftKeyCertSecret)],
              changed |-> TRUE]
        ELSE [svc |-> svc, changed |-> FALSE]

\* a variant that writes the annotation on every call with enabled set
ensureAutoTLSAnnotation_AlwaysSet(svc, secretName, enabled, route) ==
    LET ok == ServiceBetaOpenshiftKeyCertSecret \in DOMAIN svc.annotations
    IN  IF ~route THEN [svc |-> svc, changed |-> FALSE]
        ELSE IF enabled
        THEN [svc |-> [svc EXCEPT !.annotations =
                          MapSet(@, ServiceBetaOpenshiftKeyCertSecret, secretName)],
              changed |-> TRUE]
        ELSE IF ok
        THEN [svc |-> [svc EXCEPT !.annotations =
                          MapDelete(@, ServiceBetaOpenshiftKeyCertSecret)],
              changed |-> TRUE]
        ELSE [svc |-> svc, changed |-> FALSE]

\* a variant that replaces the whole annotation map when it sets the key
ensureAutoTLSAnnotation_Overwrite(svc, secretName, enabled, route) ==
    LET ok == ServiceBetaOpenshiftKeyCertSecret \in DOMAIN svc.annotations
    IN  IF ~route THEN [svc |-> svc, changed |-> FALSE]
        ELSE IF enabled /\ (~ok \/ svc.annotations[ServiceBetaOpenshiftKeyCertSecret] # secretName)
        THEN [svc |-> [svc EXCEPT !.annotations =
                          MapSet(EmptyMap, ServiceBetaOpenshiftKeyCertSecret, secretName)],
              changed |-> TRUE]
        ELSE IF ~enabled /\ ok
        THEN [svc |-> [svc EXCEPT !.annotations =
                          MapDelete(@, ServiceBetaOpenshiftKeyCertSecret)],
              changed |-> TRUE]
        ELSE [svc |-> svc, changed |-> FALSE]

\* variant: the annotation is named whether or not the Route API is available
ensureAutoTLSAnnotation_NoRouteCheck(svc, secretName, enabled, route) ==
    LET autoTLSAnnotationName == ServiceBetaOpenshiftKeyCertSecret
        ok == autoTLSAnnotationName \in DOMAIN svc.annotations
    IN  IF enabled
        THEN IF ~ok \/ svc.annotations[autoTLSAnnotationName] # secretName
             THEN [svc |-> [svc EXCEPT !.annotations =
                               MapSet(@, autoTLSAnnotationName, secretName)],
                   changed |-> TRUE]
             ELSE [svc |-> svc, changed |-> FALSE]
        ELSE IF ok
             THEN [svc |-> [svc EXCEPT !.annotations =
                               MapDelete(@, autoTLSAnnotationName)],
                   changed |-> TRUE]
             ELSE [svc |-> svc, changed |-> FALSE]

ensureAutoTLSAnnotation(svc, secretName, enabled, route) ==
    LET autoTLSAnnotationName ==
            IF route THEN ServiceBetaOpenshiftKeyCertSecret ELSE ""
        ok == autoTLSAnnotationName \in DOMAIN svc.annotations
    IN  IF autoTLSAnnotationName # ""
        THEN IF enabled
             THEN IF ~ok \/ svc.annotations[autoTLSAnnotationName] # secretName
                  THEN [svc |-> [svc EXCEPT !.annotations =
                                    MapSet(@, autoTLSAnnotationName, secretName)],
                        changed |-> TRUE]
                  ELSE [svc |-> svc, changed |-> FALSE]
             ELSE IF ok
                  THEN [svc |-> [svc EXCEPT !.annotations =
                                    MapDelete(@, autoTLSAnnotationName)],
                        changed |-> TRUE]
                  ELSE [svc |-> svc, changed |-> FALSE]
        ELSE [svc |-> svc, changed |-> FALSE]

\* EnsureAutoTLSAnnotation of controllers/argocd/service.go: the mutator of
\* the v1alpha1 API, which takes the decision from cr.Spec.Repo.AutoTLS
EnsureAutoTLSAnnotation(c, svc) ==
    LET autoTLSAnnotationName ==
            IF c.repoAutoTLS = "openshift"
            THEN "service.beta.openshift.io/serving-cert-secret-name" ELSE ""
        ok == autoTLSAnnotationName \in DOMAIN svc.annotations
    IN  IF autoTLSAnnotationName # ""
           /\ (~ok \/ svc.annotations[autoTLSAnnotationName] # ArgoCDRepoServerTLSSecretName)
        THEN [svc |-> [svc EXCEPT !.annotations =
                          MapSet(@, autoTLSAnnotationName, ArgoCDRepoServerTLSSecretName)],
              changed |-> TRUE]
        ELSE [svc |-> svc, changed |-> FALSE]

----------------------------------------------------------------------------
(* The Service reconcilers.  Each takes the pass state s and the context    *)
(* x = [cr, fail, ownerFail, raced, route, replicas] and returns the pass state    *)
(* it leaves;                                                              *)
(* s.err is the error the Go function returns.                              *)

\* the per-kind fields (selector, ports, type) set before a Create
WithSpec(svc) == [svc EXCEPT !.spec = "desired"]

\* reconcileDexService is not among the sources; it follows the
\* converge-one-resource algorithm for a service gated by the dex feature
reconcileDexService(s0, x) ==
    LET s   == Enter(s0, "dex")
        svc == newServiceWithSuffix("dex-server", "dex-server", x.cr)
    IN  IF IsObjectFound(s, x.cr.namespace, svc.name)
        THEN IF ~x.cr.dex THEN ClientDelete(s, Live(s, svc), x) ELSE s
        ELSE IF ~x.cr.dex THEN s
        ELSE CreateOwned(s, WithSpec(svc), x)

reconcileGrafanaService(s0, x) ==
    LET s   == Enter(s0, "grafana")
        svc == newServiceWithSuffix("grafana", "grafana", x.cr)
    IN  IF IsObjectFound(s, x.cr.namespace, svc.name)
        THEN IF ~x.cr.grafana THEN ClientDelete(s, Live(s, svc), x) ELSE s
        ELSE IF ~x.cr.grafana THEN s
        ELSE CreateOwned(s, WithSpec(svc), x)

reconcileMetricsService(s0, x) ==
    LET s   == Enter(s0, "metrics")
        svc == newServiceWithSuffix("metrics", "metrics", x.cr)
    IN  IF IsObjectFound(s, x.cr.namespace, svc.name)
        THEN s
        ELSE CreateOwned(s, WithSpec(svc), x)

\* the body of the for loop of reconcileRedisHAAnnounceServices from index i
\* on; every return statement inside the loop ends the whole function
RECURSIVE announceLoop(_, _, _)

\* variant: with HA disabled the loop steps over an absent index instead of
\* returning, so every pass deletes the next announce service still present
announceLoop_SkipAbsent(s, x, i) ==
    IF ~(i < x.replicas) THEN s
    ELSE
    LET svc == newServiceWithSuffix("redis-ha-announce-" \o ToString(i), "redis", x.cr)
    IN  IF IsObjectFound(s, x.cr.namespace, svc.name)
        THEN IF ~x.cr.ha THEN ClientDelete(s, Live(s, svc), x) ELSE s
        ELSE IF ~x.cr.ha THEN announceLoop(s, x, i + 1)
        ELSE LET new == WithSpec([svc EXCEPT !.annotations =
                              MapSet(EmptyMap, ServiceAlphaK8sKeyTolerateUnreadyEndpoints, "true")])
                 s1  == CreateOwned(s, new, x)
             IN  IF s1.err THEN s1 ELSE announceLoop(s1, x, i + 1)

announceLoop(s, x, i) ==
    IF ~(i < x.replicas) THEN s
    ELSE
    LET svc == newServiceWithSuffix("redis-ha-announce-" \o ToString(i), "redis", x.cr)
    IN  IF IsObjectFound(s, x.cr.namespace, svc.name)
        THEN IF ~x.cr.ha THEN ClientDelete(s, Live(s, svc), x) ELSE s
        ELSE IF ~x.cr.ha THEN s
        ELSE LET new == WithSpec([svc EXCEPT !.annotations =
                              MapSet(EmptyMap, ServiceAlphaK8sKeyTolerateUnreadyEndpoints, "true")])
                 s1  == CreateOwned(s, new, x)
             IN  IF s1.err THEN s1 ELSE announceLoop(s1, x, i + 1)

reconcileRedisHAAnnounceServices(s0, x) ==
    announceLoop(Enter(s0, "redis-ha-announce"), x, 0)

reconcileRedisHAMasterService(s0, x) ==
    LET s   == Enter(s0, "redis-ha")
        svc == newServiceWithSuffix("redis-ha", "redis", x.cr)
    IN  IF IsObjectFound(s, x.cr.namespace, svc.name)
        THEN IF ~x.cr.ha THEN ClientDelete(s, Live(s, svc), x) ELSE s
        ELSE IF ~x.cr.ha THEN s
        ELSE CreateOwned(s, WithSpec(svc), x)

\* variant: the haproxy service is kept when HA is switched off
reconcileRedisHAProxyService_KeepWhenOff(s0, x) ==
    LET s   == Enter(s0, "redis-ha-haproxy")
        svc == newServiceWithSuffix("redis-ha-haproxy", "redis", x.cr)
    IN  IF IsObjectFound(s, x.cr.namespace, svc.name)
        THEN IF ~x.cr.ha THEN s
             ELSE LET e == ensureAutoTLSAnnotation(Live(s, svc),
                              ArgoCDRedisServerTLSSecretName, RedisWantsAutoTLS(x.cr), x.route)
                  IN  IF e.changed THEN ClientUpdate(s, e.svc, x) ELSE s
        ELSE IF ~x.cr.ha THEN s
        ELSE LET e == ensureAutoTLSAnnotation(svc,
                         ArgoCDRedisServerTLSSecretName, RedisWantsAutoTLS(x.cr), x.route)
             IN  CreateOwned(s, WithSpec(e.svc), x)

reconcileRedisHAProxyService(s0, x) ==
    LET s   == Enter(s0, "redis-ha-haproxy")
        svc == newServiceWithSuffix("redis-ha-haproxy", "redis", x.cr)
    IN  IF IsObjectFound(s, x.cr.namespace, svc.name)
        THEN IF ~x.cr.ha THEN ClientDelete(s, Live(s, svc), x)
             ELSE LET e == ensureAutoTLSAnnotation(Live(s, svc),
                              ArgoCDRedisServerTLSSecretName, RedisWantsAutoTLS(x.cr), x.route)
                  IN  IF e.changed THEN ClientUpdate(s, e.svc, x) ELSE s
        ELSE IF ~x.cr.ha THEN s
        ELSE LET e == ensureAutoTLSAnnotation(svc,
                         ArgoCDRedisServerTLSSecretName, RedisWantsAutoTLS(x.cr), x.route)
             IN  CreateOwned(s, WithSpec(e.svc), x)

\* each reconciler runs only if the one before it returned no error
reconcileRedisHAServices(s0, x) ==
    LET master(s) == IF s.err THEN s ELSE reconcileRedisHAMasterService(s, x)
        proxy(s)  == IF s.err THEN s ELSE reconcileRedisHAProxyService(s, x)
    IN  proxy(master(reconcileRedisHAAnnounceServices(s0, x)))

\* a variant without the HA check on the absent path
reconcileRedisService_NoHACheck(s0, x) ==
    LET s   == Enter(s0, "redis")
        svc == newServiceWithSuffix("redis", "redis", x.cr)
    IN  IF IsObjectFound(s, x.cr.namespace, svc.name)
        THEN LET e == ensureAutoTLSAnnotation(Live(s, svc),
                         ArgoCDRedisServerTLSSecretName, RedisWantsAutoTLS(x.cr), x.route)
             IN  IF e.changed THEN ClientUpdate(s, e.svc, x)
                 ELSE IF x.cr.ha THEN ClientDelete(s, e.svc, x)
                 ELSE s
        ELSE LET e == ensureAutoTLSAnnotation(svc,
                         ArgoCDRedisServerTLSSecretName, RedisWantsAutoTLS(x.cr), x.route)
             IN  CreateOwned(s, WithSpec(e.svc), x)

reconcileRedisService(s0, x) ==
    LET s   == Enter(s0, "redis")
        svc == newServiceWithSuffix("redis", "redis", x.cr)
    IN  IF IsObjectFound(s, x.cr.namespace, svc.name)
        THEN LET e == ensureAutoTLSAnnotation(Live(s, svc),
                         ArgoCDRedisServerTLSSecretName, RedisWantsAutoTLS(x.cr), x.route)
             IN  IF e.changed THEN ClientUpdate(s, e.svc, x)
                 ELSE IF x.cr.ha THEN ClientDelete(s, e.svc, x)
                 ELSE s
        ELSE IF x.cr.ha THEN s
        ELSE LET e == ensureAutoTLSAnnotation(svc,
                         ArgoCDRedisServerTLSSecretName, RedisWantsAutoTLS(x.cr), x.route)
             IN  CreateOwned(s, WithSpec(e.svc), x)

\* a variant that also writes back the desired ports and selector when the
\* live ones differ
reconcileRepoService_FullDiff(s0, x) ==
    LET s   == Enter(s0, "repo-server")
        svc == newServiceWithSuffix("repo-server", "repo-server", x.cr)
    IN  IF IsObjectFound(s, x.cr.namespace, svc.name)
        THEN LET e == ensureAutoTLSAnnotation(Live(s, svc),
                         ArgoCDRepoServerTLSSecretName, RepoWantsAutoTLS(x.cr), x.route)
             IN  IF e.changed \/ e.svc.spec # WithSpec(svc).spec
                 THEN ClientUpdate(s, WithSpec(e.svc), x) ELSE s
        ELSE LET e == ensureAutoTLSAnnotation(svc,
                         ArgoCDRepoServerTLSSecretName, RepoWantsAutoTLS(x.cr), x.route)
             IN  CreateOwned(s, WithSpec(e.svc), x)

reconcileRepoService(s0, x) ==
    LET s   == Enter(s0, "repo-server")
        svc == newServiceWithSuffix("repo-server", "repo-server", x.cr)
    IN  IF IsObjectFound(s, x.cr.namespace, svc.name)
        THEN LET e == ensureAutoTLSAnnotation(Live(s, svc),
                         ArgoCDRepoServerTLSSecretName, RepoWantsAutoTLS(x.cr), x.route)
             IN  IF e.changed THEN ClientUpdate(s, e.svc, x) ELSE s
        ELSE LET e == ensureAutoTLSAnnotation(svc,
                         ArgoCDRepoServerTLSSecretName, RepoWantsAutoTLS(x.cr), x.route)
             IN  CreateOwned(s, WithSpec(e.svc), x)

reconcileServerMetricsService(s0, x) ==
    LET s   == Enter(s0, "server-metrics")
        svc == newServiceWithSuffix("server-metrics", "server", x.cr)
    IN  IF IsObjectFound(s, x.cr.namespace, svc.name)
        THEN s
        ELSE CreateOwned(s, WithSpec(svc), x)

reconcileServerService(s0, x) ==
    LET s   == Enter(s0, "server")
        svc == newServiceWithSuffix("server", "server", x.cr)
    IN  IF IsObjectFound(s, x.cr.namespace, svc.name)
        THEN LET e == ensureAutoTLSAnnotation(Live(s, svc),
                         ArgoCDServerTLSSecretName, ServerWantsAutoTLS(x.cr), x.route)
             IN  IF e.changed THEN ClientUpdate(s, e.svc, x) ELSE s
        ELSE LET e == ensureAutoTLSAnnotation(svc,
                         ArgoCDServerTLSSecretName, ServerWantsAutoTLS(x.cr), x.route)
             IN  CreateOwned(s, WithSpec(e.svc), x)

\* the pass state at the start of a pass
NewPass(st) ==
    [store |-> st, writes |-> <<>>, ran |-> <<>>, err |-> FALSE, logged |-> FALSE,
     raced |-> {}]

\* log.Error(err, "error reconciling dex service"): the error is dropped
LogOnly(s) == [s EXCEPT !.err = FALSE, !.logged = s.err]

\* variant: an error of the dex reconciler is returned like every other
reconcileServices_DexAborts(st, x) ==
    LET dex              == reconcileDexService(NewPass(st), x)
        grafana(s)       == IF s.err THEN s ELSE reconcileGrafanaService(s, x)
        metrics(s)       == IF s.err THEN s ELSE reconcileMetricsService(s, x)
        redisHA(s)       == IF s.err THEN s ELSE reconcileRedisHAServices(s, x)
        redis(s)         == IF s.err THEN s ELSE reconcileRedisService(s, x)
        repo(s)          == IF s.err THEN s ELSE reconcileRepoService(s, x)
        serverMetrics(s) == IF s.err THEN s ELSE reconcileServerMetricsService(s, x)
        server(s)        == IF s.err THEN s ELSE reconcileServerService(s, x)
    IN  server(serverMetrics(repo(redis(redisHA(metrics(grafana(dex)))))))

\* reconcileServices: the error of the dex reconciler is only logged, every
\* other error is returned at once
reconcileServices(st, x) ==
    LET dex           == LogOnly(reconcileDexService(NewPass(st), x))
        metrics(s)       == IF s.err THEN s ELSE reconcileMetricsService(s, x)
        redisHA(s)       == IF s.err THEN s ELSE reconcileRedisHAServices(s, x)
        redis(s)         == IF s.err THEN s ELSE reconcileRedisService(s, x)
        repo(s)          == IF s.err THEN s ELSE reconcileRepoService(s, x)
        serverMetrics(s) == IF s.err THEN s ELSE reconcileServerMetricsService(s, x)
        server(s)        == IF s.err THEN s ELSE reconcileServerService(s, x)
    IN  server(serverMetrics(repo(redis(redisHA(metrics(
            reconcileGrafanaService(dex, x)))))))

----------------------------------------------------------------------------
(* The state machine of the Service reconcilers *)

\* the ArgoCD resource as created: every feature off
DefaultCR ==
    [ name |-> InstanceName, namespace |-> InstanceNamespace,
      dex |-> FALSE, grafana |-> FALSE, ha |-> FALSE,
      redisAutoTLS |-> "", repoAutoTLS |-> "", serverRouteTLS |-> "nil" ]

Suffixes ==
    {"dex-server", "grafana", "metrics", "redis-ha", "redis-ha-haproxy",
     "redis", "repo-server", "server-metrics", "server"}
    \cup {"redis-ha-announce-" \o ToString(i) : i \in 0 .. ArgoCDDefaultRedisHAReplicas - 1}

\* the services that carry the auto-TLS annotation
TLSSuffixes == {"redis-ha-haproxy", "redis", "repo-server", "server"}

SvcKey(suffix) == <<cr.namespace, cr.name \o "-" \o suffix>>

AllKeys == {SvcKey(sfx) : sfx \in Suffixes}

\* the store rejects the mutating calls on at most one key in a pass
Faults == {{}} \cup {{k} : k \in AllKeys}

\* services in the store that are not the instance's: one of the same name in
\* another namespace and one of another instance in the same namespace
ForeignKeys == {<<"ns2", InstanceName \o "-redis">>, <<InstanceNamespace, "other-redis">>}

ForeignServices ==
    [k \in ForeignKeys |->
        [ name |-> k[2], namespace |-> k[1],
          labels |-> [name |-> k[2], component |-> "redis"],
          annotations |-> EmptyMap, owner |-> "", spec |-> "foreign" ]]

\* another actor removes at most one of the objects present during a pass
Races == {{}} \cup {{k} : k \in DOMAIN store}

NoCall == [op |-> "init", err |-> FALSE, logged |-> FALSE,
           writes |-> <<>>, ran |-> <<>>, ownerFail |-> FALSE, raced |-> {}]

IdleMut == [phase |-> "idle", n |-> 0]
IdleAsr == [op |-> "idle", n |-> 0]
IdleCm  == [op |-> "idle", n |-> 0]
IdleFn  == [fn |-> "none"]

SvcInit ==
    /\ store = ForeignServices
    /\ cr = DefaultCR
    /\ routeAPI \in BOOLEAN
    /\ haReplicas \in {1, ArgoCDDefaultRedisHAReplicas}
    /\ events = 0
    /\ last = NoCall
    /\ mut = IdleMut
    /\ resourceName = ""
    /\ resourceLabels = EmptyMap
    /\ asrStore = [k \in {} |-> EmptyMap]
    /\ asrLast = IdleAsr
    /\ cmStore = [k \in {} |-> 0]
    /\ nsDeleting = FALSE
    /\ cmLast = IdleCm
    /\ fnCall = IdleFn

\* one pass of reconcileServices; in a pass the store rejects the calls on
\* one key, or SetControllerReference fails, or nothing goes wrong
ReconcileServices ==
    \E f \in (IF events < MaxEvents THEN Faults ELSE {{}}),
       o \in (IF events < MaxEvents THEN BOOLEAN ELSE {FALSE}),
       g \in (IF events < MaxEvents THEN Races ELSE {{}}) :
        LET x == [cr |-> cr, fail |-> f, ownerFail |-> o, raced |-> g,
                  route |-> routeAPI, replicas |-> haReplicas]
            r == reconcileServices(store, x)
        IN  /\ o => f = {}
            /\ g # {} => (f = {} /\ ~o)
            /\ store' = r.store
            /\ last' = [op |-> "reconcile", err |-> r.err, logged |-> r.logged,
                        writes |-> r.writes, ran |-> r.ran, ownerFail |-> o,
                        raced |-> r.raced]
            /\ events' = IF f = {} /\ ~o /\ g = {} THEN events ELSE events + 1
            /\ UNCHANGED <<cr, routeAPI, haReplicas, mut, asrVars, fnCall, cmVars>>

Step(op) == [NoCall EXCEPT !.op = op]

\* the user edits the ArgoCD spec
SetFeature ==
    /\ \/ cr' = [cr EXCEPT !.grafana = ~@]
       \/ cr' = [cr EXCEPT !.dex = ~@]
    /\ last' = Step("spec")
    /\ events < MaxEvents
    /\ events' = events + 1
    /\ UNCHANGED <<store, routeAPI, haReplicas, mut, asrVars, fnCall, cmVars>>

SetHA ==
    /\ cr' = [cr EXCEPT !.ha = ~@]
    /\ last' = Step("spec")
    /\ events < MaxEvents
    /\ events' = events + 1
    /\ UNCHANGED <<store, routeAPI, haReplicas, mut, asrVars, fnCall, cmVars>>

SetAutoTLS ==
    /\ \/ cr' = [cr EXCEPT !.redisAutoTLS = IF @ = "" THEN "openshift" ELSE ""]
       \/ cr' = [cr EXCEPT !.repoAutoTLS = IF @ = "" THEN "openshift" ELSE ""]
       \/ cr' = [cr EXCEPT !.serverRouteTLS = IF @ = "nil" THEN TLSTerminationReencrypt ELSE "nil"]
    /\ last' = Step("spec")
    /\ events < MaxEvents
    /\ events' = events + 1
    /\ UNCHANGED <<store, routeAPI, haReplicas, mut, asrVars, fnCall, cmVars>>

\* the replica count of the Redis HA tier is changed
SetReplicas ==
    /\ haReplicas' \in (1 .. ArgoCDDefaultRedisHAReplicas) \ {haReplicas}
    /\ last' = Step("replicas")
    /\ events < MaxEvents
    /\ events' = events + 1
    /\ UNCHANGED <<store, cr, routeAPI, mut, asrVars, fnCall, cmVars>>

\* another actor edits a live service: it removes the auto-TLS annotation or
\* sets it to a foreign value, or changes a field the reconcilers do not track
EditService ==
    /\ events < MaxEvents
    /\ \E k \in DOMAIN store :
         \/ /\ ServiceBetaOpenshiftKeyCertSecret \in DOMAIN store[k].annotations
            /\ store' = [store EXCEPT ![k].annotations =
                            MapDelete(@, ServiceBetaOpenshiftKeyCertSecret)]
         \/ /\ k \in {SvcKey(sfx) : sfx \in TLSSuffixes}
            /\ store' = [store EXCEPT ![k].annotations =
                            MapSet(@, ServiceBetaOpenshiftKeyCertSecret, "foreign-secret")]
         \/ /\ store[k].spec = "desired"
            /\ store' = [store EXCEPT ![k].spec = "drifted"]
    /\ events' = events + 1
    /\ last' = Step("edit")
    /\ UNCHANGED <<cr, routeAPI, haReplicas, mut, asrVars, fnCall, cmVars>>

\* another actor deletes a live service
RemoveService ==
    /\ events < MaxEvents
    /\ \E k \in DOMAIN store \cap AllKeys :
         store' = [j \in (DOMAIN store) \ {k} |-> store[j]]
    /\ events' = events + 1
    /\ last' = Step("remove")
    /\ UNCHANGED <<cr, routeAPI, haReplicas, mut, asrVars, fnCall, cmVars>>

SvcNext ==
    \/ ReconcileServices
    \/ SetFeature
    \/ SetHA
    \/ SetAutoTLS
    \/ SetReplicas
    \/ EditService
    \/ RemoveService

Spec == SvcInit /\ [][SvcNext]_vars

----------------------------------------------------------------------------
(* The mutators on their own: a service object with any annotations, any    *)
(* secret name and enabled flag, any Repo.AutoTLS, with and without the     *)
(* Route API; each action is one call on the object left by the calls      *)
(* before it.                                                              *)

SecretNames ==
    {ArgoCDRedisServerTLSSecretName, ArgoCDRepoServerTLSSecretName, ArgoCDServerTLSSecretName}

\* annotation maps: the auto-TLS key absent or with some value, next to an
\* annotation that is not the mutators' business or without it
AnnotationMaps ==
    LET base == {EmptyMap,
                 MapSet(EmptyMap, ServiceAlphaK8sKeyTolerateUnreadyEndpoints, "true")}
    IN  base \cup {MapSet(m, ServiceBetaOpenshiftKeyCertSecret, v) :
                      m \in base,
                      v \in {ArgoCDRedisServerTLSSecretName,
                             ArgoCDRepoServerTLSSecretName, "foreign-secret"}}

MutInit ==
    /\ store = [k \in {} |-> 0]
    /\ \E a \in {"", "openshift", "kubernetes"} : cr = [DefaultCR EXCEPT !.repoAutoTLS = a]
    /\ routeAPI \in BOOLEAN
    /\ haReplicas = ArgoCDDefaultRedisHAReplicas
    /\ events = 0
    /\ last = NoCall
    /\ \E m \in AnnotationMaps, sn \in SecretNames, en \in BOOLEAN :
          LET obj == [WithSpec(newServiceWithSuffix("repo-server", "repo-server", DefaultCR))
                        EXCEPT !.annotations = m]
          IN  mut = [ phase |-> "input", obj |-> obj, before |-> obj,
                      secretName |-> sn, enabled |-> en,
                      fn |-> "", ret |-> FALSE, trace |-> <<>>, n |-> 0 ]
    /\ resourceName = ""
    /\ resourceLabels = EmptyMap
    /\ asrStore = [k \in {} |-> EmptyMap]
    /\ asrLast = IdleAsr
    /\ cmStore = [k \in {} |-> 0]
    /\ nsDeleting = FALSE
    /\ cmLast = IdleCm
    /\ fnCall = IdleFn

\* ensureAutoTLSAnnotation(svc, secretName, enabled) of the v1beta1 reconcilers
CallEnsureAutoTLSAnnotation ==
    /\ mut.n < MaxCalls
    /\ LET e == ensureAutoTLSAnnotation(mut.obj, mut.secretName, mut.enabled, routeAPI)
       IN  mut' = [mut EXCEPT !.phase = "returned", !.before = mut.obj, !.obj = e.svc,
                              !.ret = e.changed, !.fn = "ensureAutoTLSAnnotation",
                              !.trace = Append(@, [fn |-> "ensureAutoTLSAnnotation",
                                                   ret |-> e.changed]),
                              !.n = @ + 1]
    /\ UNCHANGED <<svcVars, asrVars, fnCall, cmVars>>

\* EnsureAutoTLSAnnotation(cr, svc) of controllers/argocd/service.go
CallEnsureAutoTLSAnnotationV1alpha1 ==
    /\ mut.n < MaxCalls
    /\ LET e == EnsureAutoTLSAnnotation(cr, mut.obj)
       IN  mut' = [mut EXCEPT !.phase = "returned", !.before = mut.obj, !.obj = e.svc,
                              !.ret = e.changed, !.fn = "EnsureAutoTLSAnnotation",
                              !.trace = Append(@, [fn |-> "EnsureAutoTLSAnnotation",
                                                   ret |-> e.changed]),
                              !.n = @ + 1]
    /\ UNCHANGED <<svcVars, asrVars, fnCall, cmVars>>

MutNext ==
    \/ CallEnsureAutoTLSAnnotationV1alpha1
    \/ CallEnsureAutoTLSAnnotation

SpecMut == MutInit /\ [][MutNext]_vars

----------------------------------------------------------------------------
(* The ApplicationSetReconciler.  resourceName and resourceLabels are       *)
(* package variables: Reconcile assigns them, DeleteResources reads         *)
(* resourceName.  The per-kind helpers (reconcileServiceAccount ...,        *)
(* DeleteService ...) are not among the sources and follow the spec:        *)
(* ensure-present, and delete that tolerates not-found.                     *)

ArgoCDApplicationSetControllerComponent == "applicationset-controller"

AsrInstances ==
    {[name |-> "demo", namespace |-> "ns1"], [name |-> "other", namespace |-> "ns1"]}

Kinds == {"ServiceAccount", "Role", "RoleBinding", "Deployment", "Service"}

\* util.GenerateUniqueResourceName(instanceName, instanceNamespace, component)
GenerateUniqueResourceName(name, namespace, component) ==
    name \o "-" \o namespace \o "-" \o component

\* common.DefaultLabels(resourceName, instanceName, component)
DefaultLabels(name, instanceName, component) ==
    [k \in {"name", "part-of", "component"} |->
        CASE k = "name" -> name
          [] k = "part-of" -> instanceName
          [] k = "component" -> component]

AsrCall(op, kind, namespace, name) ==
    [op |-> op, kind |-> kind, namespace |-> namespace, name |-> name]

\* asr.reconcile<Kind>(): create the resource named resourceName when absent.
\* a0 is [store, calls, ran, err]: ran lists the kinds whose helper was
\* called; fail is the set of kinds the store rejects.
reconcileKind(a0, kind, inst, name, labels, fail) ==
    LET a == [a0 EXCEPT !.ran = Append(a0.ran, kind)]
        k == <<kind, inst.namespace, name>>
    IN  IF k \in DOMAIN a.store THEN a
        ELSE LET c == Append(a.calls, AsrCall("Create", kind, inst.namespace, name))
             IN  IF kind \in fail
                 THEN [a EXCEPT !.calls = c, !.err = kind]
                 ELSE [a EXCEPT !.calls = c,
                                !.store = [j \in (DOMAIN a.store) \cup {k} |->
                                              IF j = k THEN labels ELSE a.store[j]]]

\* asr.Delete<Kind>(name, namespace): not-found is success
DeleteKind(a0, kind, name, namespace, fail) ==
    LET a == [a0 EXCEPT !.ran = Append(a0.ran, kind)]
        k == <<kind, namespace, name>>
        c == Append(a.calls, AsrCall("Delete", kind, namespace, name))
    IN  IF kind \in fail
        THEN [a EXCEPT !.calls = c, !.err = kind]
        ELSE [a EXCEPT !.calls = c, !.err = "nil",
                       !.store = [j \in (DOMAIN a.store) \ {k} |-> a.store[j]]]

\* a variant that goes on to the next step after a step has failed
Reconcile_NoAbort(st, inst, name, labels, fail) ==
    LET a0 == [store |-> st, calls |-> <<>>, ran |-> <<>>, err |-> "nil"]
        a1 == reconcileKind(a0, "ServiceAccount", inst, name, labels, fail)
        a2 == reconcileKind(a1, "Role", inst, name, labels, fail)
        a3 == reconcileKind(a2, "RoleBinding", inst, name, labels, fail)
        a4 == reconcileKind(a3, "Deployment", inst, name, labels, fail)
    IN  reconcileKind(a4, "Service", inst, name, labels, fail)

\* the body of Reconcile after the assignment of the package variables:
\* five steps, the first error is returned at once
Reconcile(st, inst, name, labels, fail) ==
    LET a0 == [store |-> st, calls |-> <<>>, ran |-> <<>>, err |-> "nil"]
        a1 == reconcileKind(a0, "ServiceAccount", inst, name, labels, fail)
        a2 == IF a1.err # "nil" THEN a1
              ELSE reconcileKind(a1, "Role", inst, name, labels, fail)
        a3 == IF a2.err # "nil" THEN a2
              ELSE reconcileKind(a2, "RoleBinding", inst, name, labels, fail)
        a4 == IF a3.err # "nil" THEN a3
              ELSE reconcileKind(a3, "Deployment", inst, name, labels, fail)
    IN  IF a4.err # "nil" THEN a4
        ELSE reconcileKind(a4, "Service", inst, name, labels, fail)

\* if err := asr.Delete<Kind>(...); err != nil { deletionError = err }
DeleteStep(a, kind, name, namespace, fail) ==
    LET d == DeleteKind(a, kind, name, namespace, fail)
    IN  IF d.err # "nil" THEN [d EXCEPT !.deletionError = d.err] ELSE d

\* a variant that returns the error of the first delete that fails
DeleteResources_ShortCircuit(st, inst, name, fail) ==
    LET a0 == [store |-> st, calls |-> <<>>, ran |-> <<>>, err |-> "nil",
               deletionError |-> "nil"]
        a1 == DeleteStep(a0, "Service", name, inst.namespace, fail)
        a2 == IF a1.err # "nil" THEN a1
              ELSE DeleteStep(a1, "Deployment", name, inst.namespace, fail)
        a3 == IF a2.err # "nil" THEN a2
              ELSE DeleteStep(a2, "RoleBinding", name, inst.namespace, fail)
        a4 == IF a3.err # "nil" THEN a3
              ELSE DeleteStep(a3, "Role", name, inst.namespace, fail)
    IN  IF a4.err # "nil" THEN a4
        ELSE DeleteStep(a4, "ServiceAccount", name, inst.namespace, fail)

\* a variant that deletes in the order of the setup
DeleteResources_SetupOrder(st, inst, name, fail) ==
    LET a0 == [store |-> st, calls |-> <<>>, ran |-> <<>>, err |-> "nil",
               deletionError |-> "nil"]
        a1 == DeleteStep(a0, "ServiceAccount", name, inst.namespace, fail)
        a2 == DeleteStep(a1, "Role", name, inst.namespace, fail)
        a3 == DeleteStep(a2, "RoleBinding", name, inst.namespace, fail)
        a4 == DeleteStep(a3, "Deployment", name, inst.namespace, fail)
    IN  DeleteStep(a4, "Service", name, inst.namespace, fail)

\* DeleteResources: five deletes, each failure overwrites deletionError
DeleteResources(st, inst, name, fail) ==
    LET a0 == [store |-> st, calls |-> <<>>, ran |-> <<>>, err |-> "nil",
               deletionError |-> "nil"]
        a1 == DeleteStep(a0, "Service", name, inst.namespace, fail)
        a2 == DeleteStep(a1, "Deployment", name, inst.namespace, fail)
        a3 == DeleteStep(a2, "RoleBinding", name, inst.namespace, fail)
        a4 == DeleteStep(a3, "Role", name, inst.namespace, fail)
    IN  DeleteStep(a4, "ServiceAccount", name, inst.namespace, fail)

AsrInit ==
    /\ store = [k \in {} |-> 0]
    /\ cr = DefaultCR
    /\ routeAPI = FALSE
    /\ haReplicas = ArgoCDDefaultRedisHAReplicas
    /\ events = 0
    /\ last = NoCall
    /\ mut = IdleMut
    /\ resourceName = ""
    /\ resourceLabels = EmptyMap
    /\ asrStore = [k \in {} |-> EmptyMap]
    /\ asrLast = IdleAsr
    /\ cmStore = [k \in {} |-> 0]
    /\ nsDeleting = FALSE
    /\ cmLast = IdleCm
    /\ fnCall = IdleFn

\* asr.Reconcile() of the reconciler of instance inst
AsrReconcile ==
    \E inst \in AsrInstances, fail \in {{}} \cup {{k} : k \in Kinds} :
        LET name   == GenerateUniqueResourceName(inst.name, inst.namespace,
                          ArgoCDApplicationSetControllerComponent)
            labels == DefaultLabels(name, inst.name, ArgoCDApplicationSetControllerComponent)
            a      == Reconcile(asrStore, inst, name, labels, fail)
        IN  /\ asrLast.n < MaxAsrCalls
            /\ resourceName' = name
            /\ resourceLabels' = labels
            /\ asrStore' = a.store
            /\ asrLast' = [op |-> "Reconcile", instance |-> inst, calls |-> a.calls,
                           ran |-> a.ran,
                           failed |-> {c.kind : c \in Range(a.calls)} \cap fail,
                           ret |-> a.err, n |-> asrLast.n + 1]
            /\ UNCHANGED <<svcVars, mut, fnCall, cmVars>>

\* asr.DeleteResources() of the reconciler of instance inst
AsrDeleteResources ==
    \E inst \in AsrInstances, fail \in SUBSET Kinds :
        LET a == DeleteResources(asrStore, inst, resourceName, fail)
        IN  /\ asrLast.n < MaxAsrCalls
            /\ asrStore' = a.store
            /\ asrLast' = [op |-> "DeleteResources", instance |-> inst, calls |-> a.calls,
                           ran |-> a.ran,
                           failed |-> {c.kind : c \in Range(a.calls)} \cap fail,
                           ret |-> a.deletionError, n |-> asrLast.n + 1]
            /\ UNCHANGED <<svcVars, mut, fnCall, resourceName, resourceLabels, cmVars>>

AsrNext ==
    \/ AsrReconcile
    \/ AsrDeleteResources

SpecAsr == AsrInit /\ [][AsrNext]_vars

----------------------------------------------------------------------------
(* The redis config-map reconcilers (controllers/argocd/redis/configmap.go)  *)
(* and the delete helpers.  A pass state c is [store, calls, err, logged]:   *)
(* the store, the mutating store calls issued so far, the error returned     *)
(* ("nil" for none) and whether an error was logged and dropped.  The        *)
(* context x is [inst, nsDeleting, fault]; x.fault names the one call of the *)
(* pass that fails with an error other than not-found, if any.  The          *)
(* workloads and cluster packages are not among the sources: their           *)
(* functions are the plain client calls their names say.                     *)

ArgoCDRedisHAConfigMapName == "argocd-redis-ha-configmap"
ArgoCDRedisHAHealthConfigMapName == "argocd-redis-ha-health-configmap"

ConfigMapNames == {ArgoCDRedisHAConfigMapName, ArgoCDRedisHAHealthConfigMapName}

\* rr.Instance
RedisInstance == [name |-> InstanceName, namespace |-> InstanceNamespace]

ClusterRoleBindingName == "demo-ns1-redis"

\* argoutil.MergeMaps(a, b): the pairs of a, overridden and extended by b
MergeMaps(a, b) ==
    [k \in (DOMAIN a) \cup (DOMAIN b) |-> IF k \in DOMAIN b THEN b[k] ELSE a[k]]

\* common.DefaultAnnotations(instanceName, instanceNamespace)
DefaultAnnotations(instanceName, instanceNamespace) ==
    [k \in {"instance-name", "instance-namespace"} |->
        IF k = "instance-name" THEN instanceName ELSE instanceNamespace]

\* variant: the name label is computed from the generated name
newClusterRoleBinding_GeneratedLabel(name, instanceName, instanceNamespace, component, labels, annotations, roleRef, subjects) ==
    LET generated == GenerateUniqueResourceName(instanceName, instanceNamespace, component)
        crbName   == IF name # "" THEN name ELSE generated
    IN  [ name        |-> crbName,
          labels      |-> MergeMaps(DefaultLabels(generated, instanceName, component), labels),
          annotations |-> MergeMaps(DefaultAnnotations(instanceName, instanceNamespace),
                                    annotations),
          roleRef     |-> roleRef,
          subjects    |-> subjects ]

newClusterRoleBinding(name, instanceName, instanceNamespace, component, labels, annotations, roleRef, subjects) ==
    LET generated == GenerateUniqueResourceName(instanceName, instanceNamespace, component)
        crbName   == IF name # "" THEN name ELSE generated
    IN  [ name        |-> crbName,
          labels      |-> MergeMaps(DefaultLabels(crbName, instanceName, component), labels),
          annotations |-> MergeMaps(DefaultAnnotations(instanceName, instanceNamespace),
                                    annotations),
          roleRef     |-> roleRef,
          subjects    |-> subjects ]

\* permissions.RequestClusterRoleBinding(request)
RequestClusterRoleBinding(request) ==
    newClusterRoleBinding(request.name, request.instanceName, request.instanceNamespace,
                          request.component, request.labels, request.annotations,
                          request.roleRef, request.subjects)

\* the request for the redis binding of the instance, with the given subjects
RedisBindingRequest(subjects) ==
    [ name |-> "", instanceName |-> RedisInstance.name,
      instanceNamespace |-> RedisInstance.namespace, component |-> "redis",
      labels |-> EmptyMap, annotations |-> EmptyMap,
      roleRef |-> "redis", subjects |-> subjects ]

CmFaults == {"none", "request", "getns", "get", "owner", "create", "delete"}

CmCall(op, kind, namespace, name) ==
    [op |-> op, kind |-> kind, namespace |-> namespace, name |-> name]

NewCmPass(st) == [store |-> st, calls |-> <<>>, err |-> "nil", logged |-> FALSE]

\* workloads.RequestConfigMap(cmRequest): the desired object
RequestConfigMap(name, inst, data) ==
    [name |-> name, namespace |-> inst.namespace, owner |-> "", data |-> data]

\* workloads.GetConfigMap(name, namespace, client)
GetConfigMap(c, name, namespace, x) ==
    IF x.fault = "get" THEN "error"
    ELSE IF <<"ConfigMap", namespace, name>> \in DOMAIN c.store THEN "found"
    ELSE "notfound"

\* workloads.CreateConfigMap(cm, client)
CreateConfigMap(c, cm, x) ==
    LET k == <<"ConfigMap", cm.namespace, cm.name>>
        w == Append(c.calls, CmCall("Create", "ConfigMap", cm.namespace, cm.name))
    IN  IF x.fault = "create" \/ k \in DOMAIN c.store
        THEN [c EXCEPT !.calls = w, !.err = "create"]
        ELSE [c EXCEPT !.calls = w,
                       !.store = [j \in (DOMAIN c.store) \cup {k} |->
                                     IF j = k THEN cm ELSE c.store[j]]]

\* workloads.DeleteConfigMap(name, namespace, client)
DeleteConfigMap(c, name, namespace, x) ==
    LET k == <<"ConfigMap", namespace, name>>
        w == Append(c.calls, CmCall("Delete", "ConfigMap", namespace, name))
    IN  IF x.fault = "delete" THEN [c EXCEPT !.calls = w, !.err = "delete"]
        ELSE IF k \notin DOMAIN c.store THEN [c EXCEPT !.calls = w, !.err = "notfound"]
        ELSE [c EXCEPT !.calls = w,
                       !.store = [j \in (DOMAIN c.store) \ {k} |-> c.store[j]]]

\* a variant that returns the not-found error of the store to its caller
deleteConfigMap_Strict(c, name, namespace, x) ==
    DeleteConfigMap(c, name, namespace, x)

\* rr.deleteConfigMap(name, namespace): not-found is success
deleteConfigMap(c, name, namespace, x) ==
    LET d == DeleteConfigMap(c, name, namespace, x)
    IN  IF d.err # "nil"
        THEN IF d.err = "notfound" THEN [d EXCEPT !.err = "nil"] ELSE d
        ELSE d

\* a variant that returns once the lookup has answered, found or not
reconcileHAConfigMap_LookupOnly(st, x) ==
    LET c0 == NewCmPass(st)
        desiredCM == RequestConfigMap(ArgoCDRedisHAConfigMapName, x.inst, "desired")
        c1 == IF x.nsDeleting
              THEN deleteConfigMap(c0, desiredCM.name, desiredCM.namespace, x)
              ELSE c0
        got == GetConfigMap(c1, desiredCM.name, desiredCM.namespace, x)
    IN  IF x.fault = "request" THEN [c0 EXCEPT !.err = "request"]
        ELSE IF x.fault = "getns" THEN [c0 EXCEPT !.err = "getns"]
        ELSE IF c1.err # "nil" THEN c1
        ELSE IF got = "error" THEN [c1 EXCEPT !.err = "get"]
        ELSE c1

\* a variant that creates the config map without an owner reference
reconcileHAConfigMap_NoOwner(st, x) ==
    LET c0 == NewCmPass(st)
        desiredCM == RequestConfigMap(ArgoCDRedisHAConfigMapName, x.inst, "desired")
        c1 == IF x.nsDeleting
              THEN deleteConfigMap(c0, desiredCM.name, desiredCM.namespace, x)
              ELSE c0
        got == GetConfigMap(c1, desiredCM.name, desiredCM.namespace, x)
    IN  IF x.fault = "request" THEN [c0 EXCEPT !.err = "request"]
        ELSE IF x.fault = "getns" THEN [c0 EXCEPT !.err = "getns"]
        ELSE IF c1.err # "nil" THEN c1
        ELSE IF got = "error" THEN [c1 EXCEPT !.err = "get"]
        ELSE IF got = "found" THEN c1
        ELSE CreateConfigMap(c1, desiredCM, x)

\* rr.reconcileHAConfigMap()
reconcileHAConfigMap(st, x) ==
    LET c0 == NewCmPass(st)
        desiredCM == RequestConfigMap(ArgoCDRedisHAConfigMapName, x.inst, "desired")
        \* if namespace.DeletionTimestamp != nil { deleteConfigMap(...) }; the
        \* function goes on to the lookup when the delete returned nil
        c1 == IF x.nsDeleting
              THEN deleteConfigMap(c0, desiredCM.name, desiredCM.namespace, x)
              ELSE c0
        got == GetConfigMap(c1, desiredCM.name, desiredCM.namespace, x)
        \* a failure of SetControllerReference is logged and dropped
        owned == IF x.fault = "owner" THEN desiredCM
                 ELSE SetControllerReference(x.inst, desiredCM)
    IN  IF x.fault = "request" THEN [c0 EXCEPT !.err = "request"]
        ELSE IF x.fault = "getns" THEN [c0 EXCEPT !.err = "getns"]
        ELSE IF c1.err # "nil" THEN c1
        ELSE IF got = "error" THEN [c1 EXCEPT !.err = "get"]
        ELSE IF got = "found" THEN c1
        ELSE CreateConfigMap([c1 EXCEPT !.logged = (x.fault = "owner")], owned, x)

\* rr.reconcileHAHealthConfigMap()
reconcileHAHealthConfigMap(st, x) ==
    LET c0 == NewCmPass(st)
        desiredCM == RequestConfigMap(ArgoCDRedisHAHealthConfigMapName, x.inst, "desired")
        c1 == IF x.nsDeleting
              THEN deleteConfigMap(c0, desiredCM.name, desiredCM.namespace, x)
              ELSE c0
        got == GetConfigMap(c1, desiredCM.name, desiredCM.namespace, x)
        owned == IF x.fault = "owner" THEN desiredCM
                 ELSE SetControllerReference(x.inst, desiredCM)
    IN  IF x.fault = "request" THEN [c0 EXCEPT !.err = "request"]
        ELSE IF x.fault = "getns" THEN [c0 EXCEPT !.err = "getns"]
        ELSE IF c1.err # "nil" THEN c1
        ELSE IF got = "error" THEN [c1 EXCEPT !.err = "get"]
        ELSE IF got = "found" THEN c1
        ELSE CreateConfigMap([c1 EXCEPT !.logged = (x.fault = "owner")], owned, x)

\* permissions.GetClusterRoleBinding(name, client)
GetClusterRoleBinding(c, name, x) ==
    IF x.fault = "get" THEN "error"
    ELSE IF <<"ClusterRoleBinding", "", name>> \in DOMAIN c.store THEN "found"
    ELSE "notfound"

\* permissions.CreateClusterRoleBinding(crb, client)
CreateClusterRoleBinding(st, crb, x) ==
    LET c == NewCmPass(st)
        k == <<"ClusterRoleBinding", "", crb.name>>
        w == Append(c.calls, CmCall("Create", "ClusterRoleBinding", "", crb.name))
    IN  IF x.fault = "create" \/ k \in DOMAIN c.store
        THEN [c EXCEPT !.calls = w, !.err = "create"]
        ELSE [c EXCEPT !.calls = w,
                       !.store = [j \in (DOMAIN c.store) \cup {k} |->
                                     IF j = k THEN crb ELSE c.store[j]]]

\* variant: the Update is issued without looking the binding up first
UpdateClusterRoleBinding_NoLookup(st, crb, x) ==
    LET c == NewCmPass(st)
        k == <<"ClusterRoleBinding", "", crb.name>>
        w == Append(c.calls, CmCall("Update", "ClusterRoleBinding", "", crb.name))
    IN  IF x.fault = "update" THEN [c EXCEPT !.calls = w, !.err = "update"]
        ELSE IF k \notin DOMAIN c.store THEN [c EXCEPT !.calls = w, !.err = "notfound"]
        ELSE [c EXCEPT !.calls = w, !.store = [c.store EXCEPT ![k] = crb]]

\* permissions.UpdateClusterRoleBinding(crb, client)
UpdateClusterRoleBinding(st, crb, x) ==
    LET c == NewCmPass(st)
        k == <<"ClusterRoleBinding", "", crb.name>>
        got == GetClusterRoleBinding(c, crb.name, x)
        w == Append(c.calls, CmCall("Update", "ClusterRoleBinding", "", crb.name))
    IN  IF got = "error" THEN [c EXCEPT !.err = "get"]
        ELSE IF got = "notfound" THEN [c EXCEPT !.err = "notfound"]
        ELSE IF x.fault = "update" THEN [c EXCEPT !.calls = w, !.err = "update"]
        ELSE [c EXCEPT !.calls = w, !.store = [c.store EXCEPT ![k] = crb]]

\* permissions.DeleteClusterRoleBinding(name, client)
DeleteClusterRoleBinding(st, name, x) ==
    LET c == NewCmPass(st)
        k == <<"ClusterRoleBinding", "", name>>
        got == GetClusterRoleBinding(c, name, x)
        w == Append(c.calls, CmCall("Delete", "ClusterRoleBinding", "", name))
    IN  IF got = "error" THEN [c EXCEPT !.err = "get"]
        ELSE IF got = "notfound" THEN c
        ELSE IF x.fault = "delete" THEN [c EXCEPT !.calls = w, !.err = "delete"]
        ELSE [c EXCEPT !.calls = w,
                       !.store = [j \in (DOMAIN c.store) \ {k} |-> c.store[j]]]

CmInit ==
    /\ store = [k \in {} |-> 0]
    /\ cr = DefaultCR
    /\ routeAPI = FALSE
    /\ haReplicas = ArgoCDDefaultRedisHAReplicas
    /\ events = 0
    /\ last = NoCall
    /\ mut = IdleMut
    /\ resourceName = ""
    /\ resourceLabels = EmptyMap
    /\ asrStore = [k \in {} |-> EmptyMap]
    /\ asrLast = IdleAsr
    /\ cmStore = [k \in {} |-> 0]
    /\ nsDeleting = FALSE
    /\ cmLast = IdleCm
    /\ fnCall = IdleFn

\* what a step leaves in cmLast: the operation, its target, whether the
\* target existed when the operation began, the failing call, the outcome
CmDone(op, kind, namespace, name, f, c) ==
    [op |-> op, kind |-> kind, namespace |-> namespace, name |-> name, fault |-> f,
     existed |-> <<kind, namespace, name>> \in DOMAIN cmStore,
     nsDeleting |-> nsDeleting,
     calls |-> c.calls, ret |-> c.err, logged |-> c.logged, n |-> cmLast.n + 1]

CmContext(f) == [inst |-> RedisInstance, nsDeleting |-> nsDeleting, fault |-> f]

CmReconcileHAConfigMap ==
    \E f \in CmFaults :
        LET c == reconcileHAConfigMap(cmStore, CmContext(f))
        IN  /\ cmLast.n < MaxCmSteps
            /\ cmStore' = c.store
            /\ cmLast' = CmDone("reconcileHAConfigMap", "ConfigMap",
                                RedisInstance.namespace, ArgoCDRedisHAConfigMapName, f, c)
            /\ UNCHANGED <<svcVars, mut, asrVars, fnCall, nsDeleting>>

CmReconcileHAHealthConfigMap ==
    \E f \in CmFaults :
        LET c == reconcileHAHealthConfigMap(cmStore, CmContext(f))
        IN  /\ cmLast.n < MaxCmSteps
            /\ cmStore' = c.store
            /\ cmLast' = CmDone("reconcileHAHealthConfigMap", "ConfigMap",
                                RedisInstance.namespace, ArgoCDRedisHAHealthConfigMapName, f, c)
            /\ UNCHANGED <<svcVars, mut, asrVars, fnCall, nsDeleting>>

\* rr.deleteConfigMap called on its own, as the teardown of the component does
CmDeleteConfigMap ==
    \E name \in ConfigMapNames, f \in {"none", "delete"} :
        LET c == deleteConfigMap(NewCmPass(cmStore), name, RedisInstance.namespace,
                                 CmContext(f))
        IN  /\ cmLast.n < MaxCmSteps
            /\ cmStore' = c.store
            /\ cmLast' = CmDone("deleteConfigMap", "ConfigMap",
                                RedisInstance.namespace, name, f, c)
            /\ UNCHANGED <<svcVars, mut, asrVars, fnCall, nsDeleting>>

CmCreateClusterRoleBinding ==
    \E f \in {"none", "create"} :
        LET crb == RequestClusterRoleBinding(RedisBindingRequest("redis-sa"))
            c   == CreateClusterRoleBinding(cmStore, crb, CmContext(f))
        IN  /\ cmLast.n < MaxCmSteps
            /\ cmStore' = c.store
            /\ cmLast' = CmDone("CreateClusterRoleBinding", "ClusterRoleBinding", "",
                                crb.name, f, c)
            /\ UNCHANGED <<svcVars, mut, asrVars, fnCall, nsDeleting>>

CmUpdateClusterRoleBinding ==
    \E f \in {"none", "get", "update"}, subjects \in {"redis-sa", "redis-sa, haproxy-sa"} :
        LET crb == RequestClusterRoleBinding(RedisBindingRequest(subjects))
            c   == UpdateClusterRoleBinding(cmStore, crb, CmContext(f))
        IN  /\ cmLast.n < MaxCmSteps
            /\ cmStore' = c.store
            /\ cmLast' = CmDone("UpdateClusterRoleBinding", "ClusterRoleBinding", "",
                                crb.name, f, c)
            /\ UNCHANGED <<svcVars, mut, asrVars, fnCall, nsDeleting>>

CmDeleteClusterRoleBinding ==
    \E f \in {"none", "get", "delete"} :
        LET c == DeleteClusterRoleBinding(cmStore, ClusterRoleBindingName, CmContext(f))
        IN  /\ cmLast.n < MaxCmSteps
            /\ cmStore' = c.store
            /\ cmLast' = CmDone("DeleteClusterRoleBinding", "ClusterRoleBinding", "",
                                ClusterRoleBindingName, f, c)
            /\ UNCHANGED <<svcVars, mut, asrVars, fnCall, nsDeleting>>

\* the namespace of the instance is deleted: it gets its deletion timestamp
MarkNamespaceDeleted ==
    /\ cmLast.n < MaxCmSteps
    /\ ~nsDeleting
    /\ nsDeleting' = TRUE
    /\ cmLast' = [op |-> "namespace", n |-> cmLast.n + 1]
    /\ UNCHANGED <<svcVars, mut, asrVars, fnCall, cmStore>>

\* another actor changes the data of a live config map
EditConfigMap ==
    \E name \in ConfigMapNames :
        LET k == <<"ConfigMap", RedisInstance.namespace, name>>
        IN  /\ cmLast.n < MaxCmSteps
            /\ k \in DOMAIN cmStore
            /\ cmStore[k].data # "drifted"
            /\ cmStore' = [cmStore EXCEPT ![k].data = "drifted"]
            /\ cmLast' = [op |-> "edit", n |-> cmLast.n + 1]
            /\ UNCHANGED <<svcVars, mut, asrVars, fnCall, nsDeleting>>

CmNext ==
    \/ CmReconcileHAConfigMap
    \/ CmReconcileHAHealthConfigMap
    \/ CmDeleteConfigMap
    \/ CmCreateClusterRoleBinding
    \/ CmUpdateClusterRoleBinding
    \/ CmDeleteClusterRoleBinding
    \/ MarkNamespaceDeleted
    \/ EditConfigMap

SpecCm == CmInit /\ [][CmNext]_vars

----------------------------------------------------------------------------
(* The functions without side effects, each called on arguments drawn from  *)
(* a small set: the name builder of the services and the WantsAutoTLS       *)
(* methods of the component specs.  A behaviour is one call.                *)

\* instance names in one namespace; a name may itself end in what is a
\* service suffix of another instance
InstanceNames == {"demo", "demo-server", "demo-repo", "other"}

AutoTLSValues == {"", "openshift", "OpenShift", "kubernetes"}

\* Route.TLS is nil, or a block with one of the termination policies of the
\* route API (or none)
RouteTLSValues == {"nil", "", "edge", "passthrough", TLSTerminationReencrypt}

FnInit ==
    /\ store = [k \in {} |-> 0]
    /\ cr = DefaultCR
    /\ routeAPI = FALSE
    /\ haReplicas = ArgoCDDefaultRedisHAReplicas
    /\ events = 0
    /\ last = NoCall
    /\ mut = IdleMut
    /\ resourceName = ""
    /\ resourceLabels = EmptyMap
    /\ asrStore = [k \in {} |-> EmptyMap]
    /\ asrLast = IdleAsr
    /\ cmStore = [k \in {} |-> 0]
    /\ nsDeleting = FALSE
    /\ cmLast = IdleCm
    /\ fnCall = IdleFn

\* newServiceWithSuffix(suffix, component, cr) for the instances a and b of
\* one namespace
CallNewServiceWithSuffix ==
    \E a \in InstanceNames, b \in InstanceNames, s \in Suffixes, t \in Suffixes :
        /\ fnCall = IdleFn
        /\ fnCall' = [fn |-> "newServiceWithSuffix", a |-> a, s |-> s, b |-> b, t |-> t,
                      nameA |-> newServiceWithSuffix(s, s, [DefaultCR EXCEPT !.name = a]).name,
                      nameB |-> newServiceWithSuffix(t, t, [DefaultCR EXCEPT !.name = b]).name]
        /\ UNCHANGED <<svcVars, mut, asrVars, cmVars>>

\* the three WantsAutoTLS methods on the spec c
CallWantsAutoTLS ==
    \E redis \in AutoTLSValues, repo \in AutoTLSValues, route \in RouteTLSValues,
       ha \in BOOLEAN :
        LET c == [DefaultCR EXCEPT !.redisAutoTLS = redis, !.repoAutoTLS = repo,
                                   !.serverRouteTLS = route, !.ha = ha]
        IN  /\ fnCall = IdleFn
            /\ fnCall' = [fn |-> "WantsAutoTLS", cr |-> c,
                          server |-> ServerWantsAutoTLS(c),
                          repo |-> RepoWantsAutoTLS(c),
                          redis |-> RedisWantsAutoTLS(c)]
            /\ UNCHANGED <<svcVars, mut, asrVars, cmVars>>

\* argocd_types.go: type ResourceTrackingMethod int and its constants
ResourceTrackingMethodInvalid == -1
ResourceTrackingMethodLabel == 0
ResourceTrackingMethodAnnotation == 1
ResourceTrackingMethodAnnotationAndLabel == 2

stringResourceTrackingMethodLabel == "label"
stringResourceTrackingMethodAnnotation == "annotation"
stringResourceTrackingMethodAnnotationAndLabel == "annotation+label"

\* func (r ResourceTrackingMethod) String() string
ResourceTrackingMethodString(r) ==
    CASE r = ResourceTrackingMethodLabel -> stringResourceTrackingMethodLabel
      [] r = ResourceTrackingMethodAnnotation -> stringResourceTrackingMethodAnnotation
      [] r = ResourceTrackingMethodAnnotationAndLabel ->
            stringResourceTrackingMethodAnnotationAndLabel
      [] OTHER -> stringResourceTrackingMethodLabel

\* variant: a name that is not known parses to the label method
ParseResourceTrackingMethod_DefaultLabel(name) ==
    CASE name = stringResourceTrackingMethodAnnotation -> ResourceTrackingMethodAnnotation
      [] name = stringResourceTrackingMethodAnnotationAndLabel ->
            ResourceTrackingMethodAnnotationAndLabel
      [] OTHER -> ResourceTrackingMethodLabel

\* func ParseResourceTrackingMethod(name string) ResourceTrackingMethod
ParseResourceTrackingMethod(name) ==
    CASE name \in {stringResourceTrackingMethodLabel, ""} -> ResourceTrackingMethodLabel
      [] name = stringResourceTrackingMethodAnnotation -> ResourceTrackingMethodAnnotation
      [] name = stringResourceTrackingMethodAnnotationAndLabel ->
            ResourceTrackingMethodAnnotationAndLabel
      [] OTHER -> ResourceTrackingMethodInvalid

\* the values of the int type: the four constants and one beyond each end
TrackingMethodValues ==
    ResourceTrackingMethodInvalid - 1 .. ResourceTrackingMethodAnnotationAndLabel + 1

\* the names handed to the parser: the three names, the empty string, and
\* names that differ from them in case, spacing or separator
TrackingMethodNames ==
    {"", "label", "annotation", "annotation+label", "Label", "ANNOTATION",
     "annotation+label ", "label+annotation", "annotation,label", "invalid"}

\* r.String(), and the parse of the string it returned
CallResourceTrackingMethodString ==
    \E r \in TrackingMethodValues :
        /\ fnCall = IdleFn
        /\ fnCall' = [fn |-> "ResourceTrackingMethod.String", r |-> r,
                      ret |-> ResourceTrackingMethodString(r),
                      parsed |-> ParseResourceTrackingMethod(ResourceTrackingMethodString(r))]
        /\ UNCHANGED <<svcVars, mut, asrVars, cmVars>>

CallParseResourceTrackingMethod ==
    \E name \in TrackingMethodNames :
        /\ fnCall = IdleFn
        /\ fnCall' = [fn |-> "ParseResourceTrackingMethod", name |-> name,
                      ret |-> ParseResourceTrackingMethod(name)]
        /\ UNCHANGED <<svcVars, mut, asrVars, cmVars>>

\* the requests handed to the builder: with and without a name of their own,
\* and with labels of their own that do or do not name the name label
BindingRequests ==
    { [ name |-> n, instanceName |-> i, instanceNamespace |-> ns, component |-> c,
        labels |-> l, annotations |-> EmptyMap, roleRef |-> c, subjects |-> "sa" ] :
      n \in {"", "custom-binding"}, i \in InstanceNames, ns \in {"ns1", "ns2"},
      c \in {"redis", "server"},
      l \in {EmptyMap, MapSet(EmptyMap, "team", "platform"), MapSet(EmptyMap, "name", "mine")} }

CallRequestClusterRoleBinding ==
    \E request \in BindingRequests :
        /\ fnCall = IdleFn
        /\ fnCall' = [fn |-> "RequestClusterRoleBinding", request |-> request,
                      ret |-> RequestClusterRoleBinding(request)]
        /\ UNCHANGED <<svcVars, mut, asrVars, cmVars>>

FnNext ==
    \/ CallNewServiceWithSuffix
    \/ CallWantsAutoTLS
    \/ CallResourceTrackingMethodString
    \/ CallParseResourceTrackingMethod
    \/ CallRequestClusterRoleBinding

SpecFn == FnInit /\ [][FnNext]_vars

----------------------------------------------------------------------------
(* Vocabulary of the properties *)

\* the store calls of a pass that target key k, in order
RECURSIVE CallsOn(_, _)
CallsOn(w, k) ==
    IF w = <<>> THEN <<>>
    ELSE IF <<Head(w).namespace, Head(w).name>> = k
         THEN <<Head(w).op>> \o CallsOn(Tail(w), k)
         ELSE CallsOn(Tail(w), k)

AnnounceKey(i) == SvcKey("redis-ha-announce-" \o ToString(i))

AnnounceKeys == {AnnounceKey(i) : i \in 0 .. ArgoCDDefaultRedisHAReplicas - 1}

\* the step is a pass of reconcileServices
Pass == last'.op = "reconcile"

\* the step is a pass that returned no error and logged none
CleanPass == Pass /\ ~last'.err /\ ~last'.logged

\* the named reconciler was entered, respectively returned nil, in the pass
Ran(who) == Pass /\ who \in Range(last'.ran)

AutoTLS(m) == IF ServiceBetaOpenshiftKeyCertSecret \in DOMAIN m
              THEN m[ServiceBetaOpenshiftKeyCertSecret] ELSE "<absent>"

----------------------------------------------------------------------------
\* C1: idempotence of a pass.  When a pass of reconcileServices has returned
\* without error (and the store rejected none of its calls) and the next step
\* is again a pass with the same spec, that second pass issues no Create,
\* Update or Delete call.
C1_Idempotence ==
    [][ (last.op = "reconcile" /\ ~last.err /\ ~last.logged /\ Pass /\ cr' = cr)
            => last'.writes = <<>> ]_vars

\* C2: HA switch-off cleanup.  With HA.Enabled = false, once error-free passes
\* have reached a pass that issues no call (the state every later pass
\* repeats), none of the indexed announce services, neither redis-ha nor
\* redis-ha-haproxy exists, and the single-instance redis service exists.
C2_HASwitchOffCleanup ==
    (last.op = "reconcile" /\ ~last.err /\ ~last.logged /\ last.writes = <<>> /\ ~cr.ha)
        => /\ AnnounceKeys \cap DOMAIN store = {}
           /\ SvcKey("redis-ha") \notin DOMAIN store
           /\ SvcKey("redis-ha-haproxy") \notin DOMAIN store
           /\ SvcKey("redis") \in DOMAIN store

\* C3: the peer set is complete and self-repairing.  With HA.Enabled = true,
\* after a pass in which reconcileRedisHAAnnounceServices returned nil, every
\* index 0..N-1 has its announce service, whatever subset existed before, and
\* the indices that existed before are not written.
C3_PeerSetComplete ==
    [][ (cr.ha /\ Ran("redis-ha"))
            => \A i \in 0 .. haReplicas - 1 :
                  /\ AnnounceKey(i) \in DOMAIN store'
                  /\ AnnounceKey(i) \in DOMAIN store
                        => CallsOn(last'.writes, AnnounceKey(i)) = <<>> ]_vars

\* C4: HA switch-on.  From a store with no redis service of any kind, with
\* HA.Enabled = true and replica count 3, one error-free pass of
\* reconcileServices leaves exactly the announce services 0, 1 and 2, the
\* redis-ha and redis-ha-haproxy services, and no single-instance redis
\* service.
RedisKeys ==
    AnnounceKeys \cup {SvcKey("redis-ha"), SvcKey("redis-ha-haproxy"), SvcKey("redis")}

C4_HASwitchOn ==
    [][ (cr.ha /\ haReplicas = 3 /\ RedisKeys \cap DOMAIN store = {} /\ CleanPass)
            => RedisKeys \cap DOMAIN store' =
                  {AnnounceKey(0), AnnounceKey(1), AnnounceKey(2),
                   SvcKey("redis-ha"), SvcKey("redis-ha-haproxy")} ]_vars

C4_Witness ==
    /\ last.op = "reconcile" /\ ~last.err /\ ~last.logged
    /\ cr.ha /\ haReplicas = 3
    /\ \A k \in {AnnounceKey(0), AnnounceKey(1), AnnounceKey(2),
                 SvcKey("redis-ha"), SvcKey("redis-ha-haproxy")} :
          CallsOn(last.writes, k) = <<"Create">> /\ k \in DOMAIN store
    /\ SvcKey("redis") \notin DOMAIN store

Gated == {"grafana", "redis-ha", "redis-ha-haproxy", "redis"}

FeatureOn(g) == IF g = "grafana" THEN cr.grafana
                ELSE IF g = "redis" THEN ~cr.ha ELSE cr.ha

\* the reconciler that reconcileServices runs after the one of g
Successor(g) == CASE g = "grafana" -> "metrics"
                  [] g = "redis-ha" -> "redis-ha-haproxy"
                  [] g = "redis-ha-haproxy" -> "redis"
                  [] g = "redis" -> "repo-server"

C6_ToggleRoundTrip ==
    [][ \A g \in Gated :
          Ran(g) =>
            LET present == SvcKey(g) \in DOMAIN store
                calls   == CallsOn(last'.writes, SvcKey(g))
            IN  /\ (FeatureOn(g) /\ ~present) => calls = <<"Create">>
                /\ (~FeatureOn(g) /\ present) => calls = <<"Delete">>
                /\ (~FeatureOn(g) /\ ~present) => calls = <<>> /\ Ran(Successor(g)) ]_vars

\* C7: annotation self-healing of the repo-server, server and redis services.
\* As claimed: when the component wants automatic TLS and the live service
\* does not carry the auto-TLS annotation with the component's secret name,
\* the pass that runs the service's reconciler issues exactly one call on the
\* service, an Update, which (unless the store rejects it) leaves the live
\* object as it was but for the annotation, now the component's secret name.
SecretOf(g) == CASE g = "repo-server" -> ArgoCDRepoServerTLSSecretName
                 [] g = "server" -> ArgoCDServerTLSSecretName
                 [] g = "redis" -> ArgoCDRedisServerTLSSecretName

Wants(g) == CASE g = "repo-server" -> RepoWantsAutoTLS(cr)
              [] g = "server" -> ServerWantsAutoTLS(cr)
              [] g = "redis" -> RedisWantsAutoTLS(cr)

Healed(svc, g) ==
    [svc EXCEPT !.annotations = MapSet(@, ServiceBetaOpenshiftKeyCertSecret, SecretOf(g))]

Heals(g) ==
    (/\ Ran(g)
     /\ SvcKey(g) \in DOMAIN store
     /\ Wants(g)
     /\ AutoTLS(store[SvcKey(g)].annotations) # SecretOf(g))
        => /\ CallsOn(last'.writes, SvcKey(g)) = <<"Update">>
           /\ SvcKey(g) \in DOMAIN store' \/ SvcKey(g) \in last'.raced
           /\ SvcKey(g) \in DOMAIN store' =>
                  store'[SvcKey(g)] \in {store[SvcKey(g)], Healed(store[SvcKey(g)], g)}
           /\ ~last'.err => store'[SvcKey(g)] = Healed(store[SvcKey(g)], g)

MutDesired ==
    IF mut.fn = "EnsureAutoTLSAnnotation" THEN ArgoCDRepoServerTLSSecretName
    ELSE mut.secretName

MutEnabled ==
    IF mut.fn = "EnsureAutoTLSAnnotation" THEN RepoWantsAutoTLS(cr) ELSE mut.enabled

C8_ToggleContract ==
    mut.n > 0 =>
        LET was == AutoTLS(mut.before.annotations)
            now == AutoTLS(mut.obj.annotations)
        IN  /\ (MutEnabled /\ was # MutDesired) => (mut.ret /\ now = MutDesired)
            /\ (~MutEnabled /\ was # "<absent>") => (mut.ret /\ now = "<absent>")
            /\ (MutEnabled /\ was = MutDesired) => ~mut.ret
            /\ (~MutEnabled /\ was = "<absent>") => ~mut.ret

\* C9: teardown does not short-circuit.  Every call of DeleteResources
\* attempts the five deletes, service, deployment, role binding, role and
\* service account, whatever the outcome of each; when exactly one fails the
\* error returned is that failure; nil is returned exactly when none fails.
C9_TeardownNoShortCircuit ==
    asrLast.op = "DeleteResources" =>
        /\ [i \in 1 .. Len(asrLast.calls) |-> asrLast.calls[i].kind] =
              <<"Service", "Deployment", "RoleBinding", "Role", "ServiceAccount">>
        /\ \A c \in Range(asrLast.calls) : c.op = "Delete"
        /\ \A k \in Kinds : asrLast.failed = {k} => asrLast.ret = k
        /\ asrLast.ret = "nil" <=> asrLast.failed = {}

\* a teardown in which only the first delete failed and the others went on to
\* remove what was there
C9_Witness ==
    /\ asrLast.op = "DeleteResources"
    /\ asrLast.failed = {"Service"}
    /\ asrLast.ret = "Service"
    /\ Len(asrLast.calls) = 5
    /\ \E k \in DOMAIN asrStore : k[1] = "Service"
    /\ \A k \in DOMAIN asrStore : k[3] = resourceName => k[1] = "Service"

\* C10: the teardown error is an aggregate.  When two or more deletes of a
\* DeleteResources call fail, the error returned reflects every failed delete.
ErrorsIn(e) == IF e = "nil" THEN {} ELSE {e}

C10_TeardownAggregate ==
    (asrLast.op = "DeleteResources" /\ Cardinality(asrLast.failed) >= 2)
        => ErrorsIn(asrLast.ret) = asrLast.failed

\* C11: ordered setup with abort on first failure.  A call of Reconcile runs
\* its steps in the order service account, role, role binding, deployment,
\* service; when a step returns an error it is the last step run, its error
\* is what Reconcile returns, and the resources of the steps before it are in
\* the store; when no step fails all five steps run.
SetupOrder == <<"ServiceAccount", "Role", "RoleBinding", "Deployment", "Service">>

C11_OrderedSetupAbort ==
    asrLast.op = "Reconcile" =>
        LET n == Len(asrLast.ran)
        IN  /\ n >= 1
            /\ asrLast.ran = SubSeq(SetupOrder, 1, n)
            /\ asrLast.ret = "nil" => n = Len(SetupOrder)
            /\ asrLast.ret # "nil" =>
                  /\ asrLast.ran[n] = asrLast.ret
                  /\ asrLast.calls[Len(asrLast.calls)].kind = asrLast.ret
                  /\ \A i \in 1 .. n - 1 :
                        <<SetupOrder[i], asrLast.instance.namespace, resourceName>>
                            \in DOMAIN asrStore

\* a Reconcile that created the service account and the role, failed on the
\* role binding, and left the deployment and the service untouched
C11_Witness ==
    /\ asrLast.op = "Reconcile"
    /\ asrLast.ret = "RoleBinding"
    /\ Len(asrLast.calls) = 3
    /\ <<"Role", asrLast.instance.namespace, resourceName>> \in DOMAIN asrStore
    /\ <<"Deployment", asrLast.instance.namespace, resourceName>> \notin DOMAIN asrStore

\* C12: teardown reverses setup.  The sequence of kinds whose delete helper a
\* call of DeleteResources runs is the reverse of the sequence of kinds that
\* an error-free Reconcile reconciles.
Reverse(q) == [i \in 1 .. Len(q) |-> q[Len(q) + 1 - i]]

SetupRan(inst) ==
    Reconcile([k \in {} |-> EmptyMap], inst, resourceName, resourceLabels, {}).ran

C12_TeardownReversesSetup ==
    asrLast.op = "DeleteResources" =>
        /\ asrLast.ran = Reverse(SetupRan(asrLast.instance))
        /\ [i \in 1 .. Len(asrLast.calls) |-> asrLast.calls[i].kind] = asrLast.ran

\* a teardown, after a setup, whose last delete was rejected: the service
\* account is what is left of the resources the setup created
C12_Witness ==
    /\ asrLast.op = "DeleteResources"
    /\ asrLast.failed = {"ServiceAccount"}
    /\ Len(asrLast.ran) = 5
    /\ \E k \in DOMAIN asrStore : k[3] = resourceName
    /\ \A k \in DOMAIN asrStore : k[3] = resourceName => k[1] = "ServiceAccount"

\* C13: no cross-instance interference.  Every store call that Reconcile or
\* DeleteResources issues for an instance targets the resource name derived
\* from that same instance.
NameOf(inst) ==
    GenerateUniqueResourceName(inst.name, inst.namespace,
                               ArgoCDApplicationSetControllerComponent)

C13_NoCrossInstance ==
    asrLast.op # "idle" =>
        \A c \in Range(asrLast.calls) : c.name = NameOf(asrLast.instance)

\* C15: an owner-reference failure is best-effort.  In a pass in which
\* SetControllerReference fails for the children about to be created, the
\* pass does not return an error, and a child that was absent and is wanted
\* whatever the spec (the metrics service) has been created.
C15_OwnerRefBestEffort ==
    (last.op = "reconcile" /\ last.ownerFail) =>
        /\ ~last.err
        /\ SvcKey("metrics") \in DOMAIN store

\* C20: a no-op emits no write.  In a pass, a service that is present, whose
\* feature and topology variant are the ones the spec asks for, and whose
\* auto-TLS annotation is already what the spec asks for, gets no Create,
\* Update or Delete and is left as it is, even when its ports and selector
\* differ from the desired ones.
FeatureMatches(g) ==
    CASE g \in Gated -> FeatureOn(g)
      [] g = "dex-server" -> cr.dex
      [] g \in {"metrics", "repo-server", "server-metrics", "server"} -> TRUE
      [] OTHER -> cr.ha

TLSWants(g) == IF g = "redis-ha-haproxy" THEN RedisWantsAutoTLS(cr) ELSE Wants(g)

TLSSecret(g) ==
    IF g = "redis-ha-haproxy" THEN ArgoCDRedisServerTLSSecretName ELSE SecretOf(g)

AnnotationSettled(g) ==
    g \in TLSSuffixes =>
        AutoTLS(store[SvcKey(g)].annotations) =
            IF TLSWants(g) THEN TLSSecret(g) ELSE "<absent>"

C20_NoOpNoWrite ==
    [][ Pass =>
          \A g \in Suffixes :
            (SvcKey(g) \in DOMAIN store /\ FeatureMatches(g) /\ AnnotationSettled(g))
                => /\ CallsOn(last'.writes, SvcKey(g)) = <<>>
                   /\ SvcKey(g) \in DOMAIN store'
                   /\ store'[SvcKey(g)] = store[SvcKey(g)] ]_vars

\* a pass has run the reconciler of the repo-server service, whose live ports
\* and selector had been changed by another actor, and has not written it
C20_Witness ==
    /\ last.op = "reconcile"
    /\ "repo-server" \in Range(last.ran)
    /\ SvcKey("repo-server") \in DOMAIN store
    /\ store[SvcKey("repo-server")].spec = "drifted"
    /\ AnnotationSettled("repo-server")
    /\ CallsOn(last.writes, SvcKey("repo-server")) = <<>>

----------------------------------------------------------------------------
\* the last step was a pass of one of the two config-map reconcilers
CmReconciled == cmLast.op \in {"reconcileHAConfigMap", "reconcileHAHealthConfigMap"}

\* the key of the resource the last step was about
CmTarget == <<cmLast.kind, cmLast.namespace, cmLast.name>>

\* C14: namespace-deletion cascade.  When the namespace carries a deletion
\* timestamp, a pass of a config-map reconciler in which no call fails issues
\* no Create and no Update for its config map, and the config map does not
\* exist at the end of the pass.
C14_NamespaceDeletionCascade ==
    (CmReconciled /\ cmLast.nsDeleting /\ cmLast.fault = "none") =>
        /\ \A c \in Range(cmLast.calls) : c.op = "Delete"
        /\ CmTarget \notin DOMAIN cmStore

\* C16: every created child is owned.  As claimed: every config map in the
\* store, all of them created by the reconcilers, carries an owner reference
\* to the instance.
C16_CreatedIsOwned_AsClaimed ==
    \A k \in DOMAIN cmStore :
        k[1] = "ConfigMap" => cmStore[k].owner = RedisInstance.name

\* C16, amended: a config map that a pass creates carries the owner reference
\* to the instance unless SetControllerReference failed in that pass (the
\* failure is then logged), and no step takes the owner reference of a live
\* config map away.
CmCreated(k) ==
    /\ cmLast'.op \in {"reconcileHAConfigMap", "reconcileHAHealthConfigMap"}
    /\ cmLast'.ret = "nil"
    /\ \E c \in Range(cmLast'.calls) :
          c.op = "Create" /\ <<c.kind, c.namespace, c.name>> = k

C16_CreatedIsOwned ==
    [][ \A k \in DOMAIN cmStore' :
          k[1] = "ConfigMap" =>
             IF CmCreated(k)
             THEN /\ cmLast'.fault # "owner" => cmStore'[k].owner = RedisInstance.name
                  /\ cmLast'.fault = "owner" => cmLast'.logged
             ELSE /\ k \in DOMAIN cmStore
                  /\ cmStore'[k].owner = cmStore[k].owner ]_vars

\* a pass has created its config map, with the owner reference
C16_Witness ==
    /\ cmLast.op = "reconcileHAConfigMap"
    /\ cmLast.fault = "none"
    /\ ~cmLast.existed
    /\ [i \in 1 .. Len(cmLast.calls) |-> cmLast.calls[i].op] = <<"Create">>
    /\ CmTarget \in DOMAIN cmStore
    /\ cmStore[CmTarget].owner = RedisInstance.name

\* C17: a lookup failure aborts the resource.  A pass of a config-map
\* reconciler whose lookup of the live object fails with an error other than
\* not-found returns an error and has issued no Create, Update or Delete.
C17_LookupFailureAborts ==
    (CmReconciled /\ cmLast.fault = "get") =>
        /\ cmLast.ret # "nil"
        /\ cmLast.calls = <<>>

\* C18: delete is idempotent.  deleteConfigMap and DeleteClusterRoleBinding
\* called for a resource that does not exist return nil and leave the store
\* as it is; called for one that exists they remove it and nothing else; when
\* a call they make fails with an error other than not-found they return it
\* and leave the store as it is.
C18_DeleteIdempotent ==
    [][ cmLast'.op \in {"deleteConfigMap", "DeleteClusterRoleBinding"} =>
          LET k == <<cmLast'.kind, cmLast'.namespace, cmLast'.name>>
              f == cmLast'.fault
              reached == f = "get" \/ (f = "delete" /\
                            (cmLast'.op = "DeleteClusterRoleBinding" => k \in DOMAIN cmStore))
          IN  /\ (f = "none" /\ k \notin DOMAIN cmStore)
                    => cmLast'.ret = "nil" /\ cmStore' = cmStore
              /\ (f = "none" /\ k \in DOMAIN cmStore)
                    => /\ cmLast'.ret = "nil"
                       /\ cmStore' = [j \in (DOMAIN cmStore) \ {k} |-> cmStore[j]]
              /\ reached => cmLast'.ret = f /\ cmStore' = cmStore ]_vars

\* deleteConfigMap was called for a config map that did not exist: the store
\* answered not-found and the helper returned nil
C18_Witness ==
    /\ cmLast.op = "deleteConfigMap"
    /\ ~cmLast.existed
    /\ cmLast.fault = "none"
    /\ Len(cmLast.calls) = 1
    /\ cmLast.ret = "nil"

\* C19: ensure-present.  With a namespace that is not being deleted, after a
\* pass of a config-map reconciler that returned nil its config map exists
\* under its name; a pass that found it present and in which no call failed
\* returns nil and issues no store call, whatever the data of the live
\* object.
C19_EnsurePresent ==
    (CmReconciled /\ ~cmLast.nsDeleting) =>
        /\ cmLast.ret = "nil" =>
              /\ CmTarget \in DOMAIN cmStore
              /\ cmStore[CmTarget].name = cmLast.name
        /\ (cmLast.existed /\ cmLast.fault = "none") =>
              cmLast.ret = "nil" /\ cmLast.calls = <<>>

\* a pass has found its config map absent and created it
C19_Witness ==
    /\ cmLast.op = "reconcileHAConfigMap"
    /\ ~cmLast.nsDeleting
    /\ ~cmLast.existed
    /\ cmLast.ret = "nil"
    /\ Len(cmLast.calls) = 1
    /\ CmTarget \in DOMAIN cmStore

----------------------------------------------------------------------------
\* C26: the toggle mutator is idempotent.  A call of a mutator on the object
\* left by a call of the same mutator with the same arguments returns false
\* and leaves the object as it is.
C26_MutatorIdempotent ==
    [][ (mut.phase = "returned" /\ mut'.fn = mut.fn)
            => (~mut'.ret /\ mut'.obj = mut.obj) ]_vars

\* ensureAutoTLSAnnotation was called twice: the first call changed the
\* object, the second returned false
C26_Witness ==
    /\ mut.n = 2
    /\ mut.trace = << [fn |-> "ensureAutoTLSAnnotation", ret |-> TRUE],
                      [fn |-> "ensureAutoTLSAnnotation", ret |-> FALSE] >>
    /\ mut.obj = mut.before

\* C27: the result and the frame of ensureAutoTLSAnnotation.  It returns true
\* exactly when the key/value pairs of the annotations after the call differ
\* from those before it; every annotation other than the auto-TLS key is
\* after the call what it was before; and no other field of the service
\* changes.
OtherAnnotations(m) == [k \in (DOMAIN m) \ {ServiceBetaOpenshiftKeyCertSecret} |-> m[k]]

C27_MutatorResultAndFrame ==
    (mut.n > 0 /\ mut.fn = "ensureAutoTLSAnnotation") =>
        /\ mut.ret <=> (mut.obj.annotations # mut.before.annotations)
        /\ OtherAnnotations(mut.obj.annotations) = OtherAnnotations(mut.before.annotations)
        /\ [mut.obj EXCEPT !.annotations = mut.before.annotations] = mut.before

\* a call that set the auto-TLS key on a service carrying another annotation
C27_Witness ==
    /\ mut.n > 0 /\ mut.fn = "ensureAutoTLSAnnotation"
    /\ mut.ret
    /\ AutoTLS(mut.obj.annotations) = mut.secretName
    /\ ServiceAlphaK8sKeyTolerateUnreadyEndpoints \in DOMAIN mut.before.annotations
    /\ ServiceAlphaK8sKeyTolerateUnreadyEndpoints \in DOMAIN mut.obj.annotations

----------------------------------------------------------------------------
\* C21: name uniqueness across instances.  In one namespace the service name
\* built for (a, s) differs from the one built for (b, t) whenever the
\* instances a and b differ, and for one instance whenever the suffixes s and
\* t differ.
C21_NameUniqueness ==
    fnCall.fn = "newServiceWithSuffix" =>
        /\ fnCall.a # fnCall.b => fnCall.nameA # fnCall.nameB
        /\ (fnCall.a = fnCall.b /\ fnCall.s # fnCall.t) => fnCall.nameA # fnCall.nameB

\* C22: the auto-TLS decision is a function of the component's
\* configuration alone.  The repo-server and redis specs want auto-TLS
\* exactly when their AutoTLS string is "openshift", the server spec exactly
\* when a route TLS block is set and its termination policy is reencrypt.
C22_WantsAutoTLS ==
    fnCall.fn = "WantsAutoTLS" =>
        /\ fnCall.repo <=> fnCall.cr.repoAutoTLS = "openshift"
        /\ fnCall.redis <=> fnCall.cr.redisAutoTLS = "openshift"
        /\ fnCall.server <=> fnCall.cr.serverRouteTLS = "reencrypt"

\* the methods were called on a spec of which only the server wants auto-TLS,
\* the repo server naming a provider that is not supported
C22_Witness ==
    /\ fnCall.fn = "WantsAutoTLS"
    /\ fnCall.cr.repoAutoTLS = "kubernetes" /\ ~fnCall.repo
    /\ fnCall.cr.redisAutoTLS = "" /\ ~fnCall.redis
    /\ fnCall.cr.serverRouteTLS = "reencrypt" /\ fnCall.server

----------------------------------------------------------------------------
\* C24: teardown targets the instance's own resources whatever the call
\* order.  Every call that DeleteResources of the reconciler of an instance
\* issues is a Delete of the resource named after that instance, in the
\* namespace of that instance, whether or not Reconcile was called before and
\* whichever instance it was last called for.
C24_TeardownTargetsOwn ==
    asrLast.op = "DeleteResources" =>
        \A c \in Range(asrLast.calls) :
            /\ c.op = "Delete"
            /\ c.namespace = asrLast.instance.namespace
            /\ c.name = NameOf(asrLast.instance)

\* C30: at most one write per resource per pass.  A pass of a config-map
\* reconciler issues at most one mutating store call for its config map, in
\* every branch, the namespace-deletion branch included.
C30_OneWritePerPass ==
    CmReconciled =>
        Cardinality({i \in 1 .. Len(cmLast.calls) :
                        <<cmLast.calls[i].kind, cmLast.calls[i].namespace,
                          cmLast.calls[i].name>> = CmTarget}) <= 1

-----------------------------------------------------------------------------
\* C23: when the live redis service is present while HA is enabled, or the
\* live redis-ha-haproxy service is present while HA is disabled, the pass
\* that reaches its reconciler issues exactly one call on it, a Delete, and
\* no Update, whatever its annotations are.
\* reconcileRedisService looks at the annotation first and returns the
\* Update (part_000:283-285) before it looks at HA (part_000:286-288).
C23_DeletePrecedence ==
    [][ \A g \in {"redis", "redis-ha-haproxy"} :
          (Ran(g) /\ SvcKey(g) \in DOMAIN store /\ ~FeatureOn(g))
              => CallsOn(last'.writes, SvcKey(g)) = <<"Delete">> ]_vars

-----------------------------------------------------------------------------
\* the context of a pass in which the store accepts every call
QuietContext == [cr |-> cr, fail |-> {}, ownerFail |-> FALSE, raced |-> {},
                 route |-> routeAPI, replicas |-> haReplicas]

\* the store after n undisturbed passes started from the current store
RECURSIVE AfterPasses(_)
AfterPasses(n) ==
    IF n = 0 THEN store ELSE reconcileServices(AfterPasses(n - 1), QuietContext).store

\* the n-th undisturbed pass started from the current store
NthPass(n) == reconcileServices(AfterPasses(n - 1), QuietContext)

\* C28: from every reachable store and spec, with no store error and no
\* other writer, the third pass of reconcileServices (and so every later
\* one, the store being unchanged by it) issues no Create, Update or Delete.
C28_FixedPoint ==
    /\ ~NthPass(3).err
    /\ NthPass(3).writes = <<>>

\* a store that needs both passes: the redis service is updated by the
\* first and deleted by the second, and the third is quiet
C28_Witness ==
    /\ NthPass(1).writes # <<>>
    /\ NthPass(2).writes # <<>>
    /\ NthPass(3).writes = <<>>

-----------------------------------------------------------------------------
\* C25: when another actor removes a live service between a reconciler's
\* existence check and its Delete call, the not-found answer of the Delete
\* counts as success and the pass returns no error.
\* Every delete site is "return r.Client.Delete(...)" (part_000:75, 188),
\* which hands the store's not-found error to the caller.
C25_RacingDeleteNotFound ==
    (last.op = "reconcile"
        /\ \E k \in last.raced : CallsOn(last.writes, k) = <<"Delete">>)
        => ~last.err

-----------------------------------------------------------------------------
\* C29: after a pass of reconcileServices that issued no write and returned
\* no error, the redis service exists exactly when HA is disabled, and the
\* redis-ha and redis-ha-haproxy services exist exactly when HA is enabled.
C29_TopologyExclusive ==
    (last.op = "reconcile" /\ ~last.err /\ last.writes = <<>>)
        => /\ SvcKey("redis") \in DOMAIN store <=> ~cr.ha
           /\ SvcKey("redis-ha") \in DOMAIN store <=> cr.ha
           /\ SvcKey("redis-ha-haproxy") \in DOMAIN store <=> cr.ha

\* a quiet pass over the HA topology
C29_Witness ==
    /\ last.op = "reconcile" /\ ~last.err /\ last.writes = <<>>
    /\ cr.ha
    /\ SvcKey("redis-ha") \in DOMAIN store
    /\ SvcKey("redis-ha-haproxy") \in DOMAIN store
    /\ SvcKey("redis") \notin DOMAIN store

-----------------------------------------------------------------------------
\* the reconcilers in the order reconcileServices and reconcileRedisHAServices
\* call them
ServiceOrder ==
    <<"dex", "grafana", "metrics", "redis-ha-announce", "redis-ha",
      "redis-ha-haproxy", "redis", "repo-server", "server-metrics", "server">>

IsPrefix(p, q) == Len(p) <= Len(q) /\ p = SubSeq(q, 1, Len(p))

\* the keys a reconciler works on
KeysOf(who) == IF who = "dex" THEN {SvcKey("dex-server")}
               ELSE IF who = "redis-ha-announce" THEN AnnounceKeys
               ELSE {SvcKey(who)}

\* C31: a pass of reconcileServices runs its reconcilers in their fixed
\* order.  An error of the dex reconciler is only logged and the reconcilers
\* after it still run; an error of any other reconciler is returned at once:
\* that reconciler is the last one run, so the pass's last store call, if a
\* store call failed, is one of its calls.  A pass that returns no error has
\* run every reconciler.
C31_ErrorPropagation ==
    last.op = "reconcile" =>
        /\ IsPrefix(last.ran, ServiceOrder)
        /\ last.logged => Len(last.ran) >= 2
        /\ ~last.err => last.ran = ServiceOrder
        /\ last.err =>
              /\ last.ran[Len(last.ran)] # "dex"
              /\ (~last.ownerFail /\ last.writes # <<>>) =>
                    LET c == last.writes[Len(last.writes)]
                    IN  <<c.namespace, c.name>> \in KeysOf(last.ran[Len(last.ran)])

\* the dex reconciler's error was logged, the pass went on, and the grafana
\* reconciler's error ended it before the last reconciler
C31_Witness ==
    /\ last.op = "reconcile"
    /\ last.logged /\ last.err
    /\ last.ran = <<"dex", "grafana">>

-----------------------------------------------------------------------------
-----------------------------------------------------------------------------
\* C33: the reconcilers of the metrics and server-metrics services, which no
\* feature gates, issue exactly one call, a Create, when their service is
\* absent, and no store call when it is present; never an Update or a Delete.
\* When SetControllerReference fails they return its error before the Create
\* (part_000:126-128, 414-416) and an absent service gets no call at all.
C33_UngatedCreateOnly ==
    [][ \A g \in {"metrics", "server-metrics"} :
          Ran(g) => CallsOn(last'.writes, SvcKey(g)) =
                       IF SvcKey(g) \in DOMAIN store THEN <<>> ELSE <<"Create">> ]_vars

-----------------------------------------------------------------------------
\* C34: every Create, Update or Delete of a pass of reconcileServices targets
\* a service in the instance's namespace whose name is the instance's name,
\* "-" and one of the reconcilers' suffixes, and every other object of the
\* store is the same after the pass as before it.
C34_WritesOwnResources ==
    [][ Pass =>
          /\ \A i \in 1 .. Len(last'.writes) :
                /\ last'.writes[i].namespace = cr.namespace
                /\ \E sfx \in Suffixes : last'.writes[i].name = cr.name \o "-" \o sfx
          /\ \A k \in (DOMAIN store \cup DOMAIN store') \ AllKeys :
                /\ k \in DOMAIN store /\ k \in DOMAIN store'
                /\ store'[k] = store[k] ]_vars

\* a pass has written the instance's services next to the foreign ones
C34_Witness ==
    /\ last.op = "reconcile"
    /\ Len(last.writes) >= 3
    /\ ForeignKeys \subseteq DOMAIN store
    /\ \E k \in DOMAIN store \cap AllKeys : k[2] = InstanceName \o "-redis"

-----------------------------------------------------------------------------
\* C35: UpdateClusterRoleBinding looks the binding up first: when the lookup
\* fails or the binding does not exist it returns the lookup's error, issues
\* no Update and leaves the store as it is.  DeleteClusterRoleBinding returns
\* the error of a lookup that failed with something other than not-found,
\* issues no Delete and leaves the store as it is.
C35_LookupGuardsWrite ==
    [][ LET k == <<cmLast'.kind, cmLast'.namespace, cmLast'.name>>
            quiet == cmLast'.calls = <<>> /\ cmStore' = cmStore
        IN  /\ cmLast'.op = "UpdateClusterRoleBinding" =>
                  /\ cmLast'.fault = "get" => cmLast'.ret = "get" /\ quiet
                  /\ (cmLast'.fault # "get" /\ k \notin DOMAIN cmStore)
                        => cmLast'.ret = "notfound" /\ quiet
            /\ (cmLast'.op = "DeleteClusterRoleBinding" /\ cmLast'.fault = "get")
                  => cmLast'.ret = "get" /\ quiet ]_vars

\* an UpdateClusterRoleBinding of a binding that does not exist
C35_Witness ==
    /\ cmLast.op = "UpdateClusterRoleBinding"
    /\ ~cmLast.existed
    /\ cmLast.fault = "none"
    /\ cmLast.ret = "notfound"
    /\ cmLast.calls = <<>>

-----------------------------------------------------------------------------
\* C36: each of the three valid methods is the parse of its own String();
\* String() of the invalid method is the name of the label method; the empty
\* string parses to the label method and every string other than the three
\* names and the empty string parses to the invalid method.
C36_TrackingMethodRoundTrip ==
    /\ fnCall.fn = "ResourceTrackingMethod.String" =>
          /\ fnCall.r \in {ResourceTrackingMethodLabel, ResourceTrackingMethodAnnotation,
                           ResourceTrackingMethodAnnotationAndLabel}
                => fnCall.parsed = fnCall.r
          /\ fnCall.r = ResourceTrackingMethodInvalid => fnCall.ret = "label"
    /\ fnCall.fn = "ParseResourceTrackingMethod" =>
          /\ fnCall.name = "" => fnCall.ret = ResourceTrackingMethodLabel
          /\ fnCall.name \notin {"", "label", "annotation", "annotation+label"}
                => fnCall.ret = ResourceTrackingMethodInvalid

\* the round trip of the annotation+label method
C36_Witness ==
    /\ fnCall.fn = "ResourceTrackingMethod.String"
    /\ fnCall.r = ResourceTrackingMethodAnnotationAndLabel
    /\ fnCall.ret = "annotation+label"
    /\ fnCall.parsed = ResourceTrackingMethodAnnotationAndLabel

-----------------------------------------------------------------------------
\* C37: the object built by RequestClusterRoleBinding is named by the
\* request's Name when that is not empty, and otherwise by the name generated
\* from the instance's name, its namespace and the component; its default
\* labels are those of that final name, so the name label is the final name
\* unless the request's own labels set that key.
C37_ExplicitNameWins ==
    fnCall.fn = "RequestClusterRoleBinding" =>
        LET rq    == fnCall.request
            final == IF rq.name # "" THEN rq.name
                     ELSE rq.instanceName \o "-" \o rq.instanceNamespace \o "-" \o rq.component
            dflt  == DefaultLabels(final, rq.instanceName, rq.component)
        IN  /\ fnCall.ret.name = final
            /\ \A k \in DOMAIN dflt :
                  /\ k \in DOMAIN fnCall.ret.labels
                  /\ k \notin DOMAIN rq.labels => fnCall.ret.labels[k] = dflt[k]
            /\ "name" \notin DOMAIN rq.labels => fnCall.ret.labels["name"] = final

\* a request with a name of its own: the name and the name label are that name
C37_Witness ==
    /\ fnCall.fn = "RequestClusterRoleBinding"
    /\ fnCall.request.name = "custom-binding"
    /\ fnCall.ret.name = "custom-binding"
    /\ fnCall.ret.labels["name"] = "custom-binding"

====
